---- MODULE Spec2Model ----
(***************************************************************************)
(* Shift reconstruction and interval inference of the timesheet service    *)
(* (src/services/timesheetService.ts).                                     *)
(*                                                                         *)
(* Representation.                                                         *)
(*   - A Date is an integer: milliseconds of local time since              *)
(*     2020-01-01 00:00:00.000 (no daylight-saving shift is modelled, so   *)
(*     a calendar day is DayMs long).                                      *)
(*   - A string whose content the code inspects (a person name) is the     *)
(*     tuple of its UTF-16 code units.                                     *)
(*   - A column header is a string of a fixed vocabulary; HeaderKeywords   *)
(*     tabulates `header.toLowerCase().includes(keyword)` for it.          *)
(*   - A cell value is a tagged record: a Date, a string or a number.      *)
(*   - An object reference (RawRecord.OriginalRow) is the index of the row *)
(*     in the decoded table.                                               *)
(*   - Math.random() is a draw k / RandDen, k \in 0 .. RandDen - 1.        *)
(***************************************************************************)
EXTENDS Integers, Sequences, FiniteSets, TLC

VARIABLES
    pc,         \* position of the pipeline / of the pure-function harness
    table,      \* jsonData: the decoded first sheet, a sequence of rows
    config,     \* the ProcessingConfig of the call
    records,    \* RawRecord[] returned by parseRawData
    shifts,     \* ProcessedShift[] returned by processRecords
    daily,      \* DailyWorkerRecord[] returned by calculateDailyWorkers
    shiftStart, \* argument of getLunchWindow (window harness)
    window,     \* result of getLunchWindow (window harness)
    data1,      \* decoded table of file1 (intersection)
    data2,      \* decoded table of file2 (intersection)
    isect,      \* result of processInformationIntersection
    merged,     \* result of mergeFiles
    files,      \* the File[] given to mergeFiles: what each read will yield
    reads,      \* the readFile promises of a merge in progress
    merger,     \* state of the FileMerger component
    app,        \* state of the App component
    analyzer,   \* state of the InformationAnalyzer component
    sheets      \* the sheets of the last workbook written by an export

vars == <<pc, table, config, records, shifts, daily, shiftStart, window,
          data1, data2, isect, merged, files, reads, merger, app, analyzer,
          sheets>>

\* the variables of the components, of a merge in progress and of the exports
uiVars == <<files, reads, merger, app, analyzer, sheets>>

(***************************************************************************)
(* Bounds of the model.                                                    *)
(***************************************************************************)
MaxPunches == 4     \* punches of one person in a generated table
MaxRows == 3        \* rows of a heterogeneous table
MaxIsectRows == 2   \* rows of each of the two tables of the intersection
RandDen == 2        \* Math.random() takes the values k / RandDen
MaxDay == 2         \* calendar days of the window harness: 0 .. MaxDay
MaxFiles == 2       \* files given to one call of mergeFiles
MaxMergeRows == 2   \* rows of one file given to mergeFiles
MaxExportSlots == 3 \* person-days of a table given to the shift identifier
MaxSelect == 2      \* files chosen in one selection of the file input
MaxCalls == 2       \* processTimesheetFile calls of App in flight at once
MaxDrawPunches == 3 \* punches of a table whose runs are compared draw by draw

(***************************************************************************)
(* Program constants.                                                      *)
(***************************************************************************)
MsPerSec == 1000
MsPerMin == 60000
MsPerHour == 3600000
DayMs == 86400000
MinYear == 2020
FullCapHours == 18
THRESHOLD_HOURS == 12
MAX_SHIFT_DURATION_HOURS == 16
SafeBufferMin == 15
ArtificialBaseMin == 60
ArtificialSpread == 6
DailyLunchMin == 45
DailyLunchMax == 75
StringMinLen == 8
MaxMergeFiles == 5
MinMergeFiles == 2

\* null in a Date-valued field: an integer that is no Date of the model
Null == -1

DEFAULT_CONFIG ==
    [shiftThresholdHours |-> 8, lunchMinDuration |-> 45,
     lunchMaxDuration |-> 75, defaultLunchDuration |-> 60]

(***************************************************************************)
(* Generic helpers.                                                        *)
(***************************************************************************)
Max(a, b) == IF a >= b THEN a ELSE b
Min(a, b) == IF a <= b THEN a ELSE b
Abs(a) == IF a < 0 THEN -a ELSE a

(***************************************************************************)
(* Date accessors (local time).                                            *)
(***************************************************************************)
getHours(d) == (d % DayMs) \div MsPerHour
getMinutes(d) == (d % MsPerHour) \div MsPerMin
getSeconds(d) == (d % MsPerMin) \div MsPerSec
\* exact for dates from 2019-01-01 to 2020-12-31, the range of the inputs
getFullYear(d) == IF d >= 0 THEN MinYear + ((d \div DayMs) \div 366)
                  ELSE MinYear - 1 - (((-d - 1) \div DayMs) \div 365)
StartOfDay(d) == d - (d % DayMs)

\* formatDuration: "HH:MM:SS" as the triple <<h, m, s>>
formatDuration(ms0) ==
    LET ms == IF ms0 < 0 THEN 0 ELSE ms0
        totalSeconds == ms \div MsPerSec
    IN  <<totalSeconds \div 3600, (totalSeconds % 3600) \div 60, totalSeconds % 60>>

\* formatDateOnly: "YYYY-MM-DD" as the start of the calendar day
formatDateOnly(d) == StartOfDay(d)

setDateTime(baseDate, hours, minutes) ==
    StartOfDay(baseDate) + hours * MsPerHour + minutes * MsPerMin

\* getLunchWindow with the night window always on the start's own day
getLunchWindowNoRollover(start) ==
    LET startHour == getHours(start)
    IN  IF startHour >= 5 /\ startHour < 13
        THEN [start |-> setDateTime(start, 10, 30), end |-> setDateTime(start, 14, 30)]
        ELSE IF startHour >= 13 /\ startHour < 18
        THEN [start |-> setDateTime(start, 17, 30), end |-> setDateTime(start, 20, 0)]
        ELSE [start |-> setDateTime(start, 0, 30), end |-> setDateTime(start, 3, 0)]

getLunchWindow(start) ==
    LET startHour == getHours(start)
    IN  IF startHour >= 5 /\ startHour < 13
        THEN [start |-> setDateTime(start, 10, 30), end |-> setDateTime(start, 14, 30)]
        ELSE IF startHour >= 13 /\ startHour < 18
        THEN [start |-> setDateTime(start, 17, 30), end |-> setDateTime(start, 20, 0)]
        ELSE LET refDate == IF startHour >= 18 THEN start + DayMs ELSE start
             IN  [start |-> setDateTime(refDate, 0, 30), end |-> setDateTime(refDate, 3, 0)]

(***************************************************************************)
(* Strings: tuples of UTF-16 code units.                                   *)
(***************************************************************************)
WhiteSpace == {9, 10, 11, 12, 13, 32, 160}

RECURSIVE TrimLeft(_)
TrimLeft(s) ==
    IF s # << >> /\ Head(s) \in WhiteSpace THEN TrimLeft(Tail(s)) ELSE s

RECURSIVE TrimRight(_)
TrimRight(s) ==
    IF s # << >> /\ s[Len(s)] \in WhiteSpace
    THEN TrimRight(SubSeq(s, 1, Len(s) - 1)) ELSE s

\* String.prototype.trim
Trim(s) == TrimRight(TrimLeft(s))

\* String.prototype.toLowerCase on ASCII and Latin-1 letters
LowerChar(c) ==
    IF (c >= 65 /\ c <= 90) \/ (c >= 192 /\ c <= 222 /\ c # 215) THEN c + 32 ELSE c
ToLowerCase(s) == [i \in 1 .. Len(s) |-> LowerChar(s[i])]

RECURSIVE StrLess(_, _)
\* a < b on strings: lexicographic on code units
StrLess(a, b) ==
    IF b = << >> THEN FALSE
    ELSE IF a = << >> THEN TRUE
    ELSE IF Head(a) # Head(b) THEN Head(a) < Head(b)
    ELSE StrLess(Tail(a), Tail(b))

\* String(value): a string is itself, a number its decimal digit (numbers of
\* the tables are single digits), a Date some non-blank text ("D")
StringOf(val) ==
    IF val.type = "string" THEN val.chars
    ELSE IF val.type = "number" THEN <<48 + val.n>>
    ELSE <<68>>

\* JavaScript truthiness of a cell value
Truthy(val) ==
    IF val.type = "string" THEN val.chars # << >>
    ELSE IF val.type = "number" THEN val.n # 0
    ELSE TRUE

DefaultGroup == <<68, 101, 102, 97, 117, 108, 116>>   \* 'Default'

(***************************************************************************)
(* Column headers.  HeaderKeywords(h) is the set of the keywords the code  *)
(* searches for that the lower-cased header h contains.                    *)
(***************************************************************************)
HeaderKeywords(h) ==
    CASE h = "Nome" -> {"nome"}
      [] h = "Pessoa" -> {"pessoa"}
      [] h = "Colaborador" -> {"colaborador"}
      [] h = "Nome do Grupo" -> {"nome", "grupo"}
      [] h = "Grupo" -> {"grupo"}
      [] h = "Setor" -> {"setor"}
      [] h = "CPF" -> {"cpf"}
      [] h = "Cargo" -> {"cargo"}
      [] h = "Total Horas" -> {"total", "horas"}
      [] h = "Obs" -> {"obs"}
      [] OTHER -> {}          \* "Data/Hora", "Data", "Entrada", "Saida", ...

\* k.toLowerCase().includes(kw) for some kw of kws
HeaderIncludesAny(h, kws) == HeaderKeywords(h) \cap kws # {}

RECURSIVE FindKeyFrom(_, _, _)
\* keys.find(...): index of the first cell at or after i whose header
\* contains one of kws, 0 when there is none
FindKeyFrom(row, i, kws) ==
    IF i > Len(row) THEN 0
    ELSE IF HeaderIncludesAny(row[i].key, kws) THEN i
    ELSE FindKeyFrom(row, i + 1, kws)

FindKey(row, kws) == FindKeyFrom(row, 1, kws)

PersonKeywords == {"pessoa", "nome", "funcionario", "empregado"}
GroupKeywords == {"grupo", "depto"}
SummaryKeywords == {"total", "saldo", "banco", "horas", "hrs", "trab", "obs"}

(***************************************************************************)
(* parseRawData: the column sniffer / normalizer.                          *)
(***************************************************************************)
\* the Date a cell yields: [ok, t]
CellDate(val) ==
    IF val.type = "date" THEN [ok |-> TRUE, t |-> val.t]
    ELSE IF val.type = "string" /\ Len(val.chars) > StringMinLen /\ val.date.valid
    THEN [ok |-> TRUE, t |-> val.date.t]
    ELSE [ok |-> FALSE, t |-> 0]

isMidnight(d) == getHours(d) = 0 /\ getMinutes(d) = 0 /\ getSeconds(d) = 0
isInvalidYear(d) == getFullYear(d) < MinYear

\* a candidate that passes no filter at all
AcceptDateAll(d) == TRUE

\* the two filters of a candidate punch
AcceptDate(d) == ~isMidnight(d) /\ ~isInvalidYear(d)

RECURSIVE CellRecords(_, _, _, _, _, _, _)
\* keys.forEach over the cells i .. Len(row) of one row
CellRecords(row, rowIdx, i, personKey, groupKey, personName, group) ==
    IF i > Len(row) THEN << >>
    ELSE
      LET rest == CellRecords(row, rowIdx, i + 1, personKey, groupKey, personName, group)
          dv == CellDate(row[i].val)
      IN  IF i = personKey \/ i = groupKey THEN rest
          ELSE IF HeaderIncludesAny(row[i].key, SummaryKeywords) THEN rest
          ELSE IF dv.ok /\ AcceptDate(dv.t)
          THEN <<[Pessoa |-> personName, DataHora |-> dv.t, Grupo |-> group,
                  OriginalRow |-> rowIdx]>> \o rest
          ELSE rest

\* a scan that goes on, without a name, when the row has no person column
RowRecordsAnonymous(row, rowIdx) ==
    LET personKey == FindKey(row, PersonKeywords)
        personName == IF personKey = 0 THEN << >>
                      ELSE Trim(StringOf(row[personKey].val))
        groupKey == FindKey(row, GroupKeywords)
        group == IF groupKey # 0 THEN Trim(StringOf(row[groupKey].val))
                 ELSE DefaultGroup
    IN  IF personKey # 0 /\ personName = << >> THEN << >>
        ELSE CellRecords(row, rowIdx, 1, personKey, groupKey, personName, group)

\* the punches one row contributes
RowRecords(row, rowIdx) ==
    LET personKey == FindKey(row, PersonKeywords)
    IN  IF personKey = 0 THEN << >>
        ELSE
          LET personName == Trim(StringOf(row[personKey].val))
              groupKey == FindKey(row, GroupKeywords)
              group == IF groupKey # 0 THEN Trim(StringOf(row[groupKey].val))
                       ELSE DefaultGroup
          IN  IF personName = << >> THEN << >>
              ELSE CellRecords(row, rowIdx, 1, personKey, groupKey, personName, group)

RECURSIVE ScanRows(_, _)
ScanRows(jsonData, i) ==
    IF i > Len(jsonData) THEN << >>
    ELSE RowRecords(jsonData[i], i) \o ScanRows(jsonData, i + 1)

(***************************************************************************)
(* Array.prototype.sort with the comparator "name, then time" that         *)
(* parseRawData, processRecords and calculateDailyWorkers all use.  The    *)
(* elements are keyed entries [name, time, item]; the sort is stable.      *)
(***************************************************************************)
\* the comparator with the two name tests exchanged
KeyCompareDescending(a, b) ==
    IF StrLess(a.name, b.name) THEN 1
    ELSE IF StrLess(b.name, a.name) THEN -1
    ELSE a.time - b.time

\* the comparator with the timestamp left out
KeyCompareByName(a, b) ==
    IF StrLess(a.name, b.name) THEN -1
    ELSE IF StrLess(b.name, a.name) THEN 1
    ELSE 0

KeyCompare(a, b) ==
    IF StrLess(a.name, b.name) THEN -1
    ELSE IF StrLess(b.name, a.name) THEN 1
    ELSE a.time - b.time

RECURSIVE InsertKeyed(_, _)
\* stable insertion: x goes before the first element that compares greater
InsertKeyed(sorted, x) ==
    IF sorted = << >> THEN <<x>>
    ELSE IF KeyCompare(Head(sorted), x) > 0 THEN <<x>> \o sorted
    ELSE <<Head(sorted)>> \o InsertKeyed(Tail(sorted), x)

RECURSIVE SortKeyedFrom(_, _, _)
SortKeyedFrom(entries, i, acc) ==
    IF i > Len(entries) THEN acc
    ELSE SortKeyedFrom(entries, i + 1, InsertKeyed(acc, entries[i]))

SortKeyed(entries) == SortKeyedFrom(entries, 1, << >>)

\* records.sort(...) of parseRawData
SortRecords(recs) ==
    LET keyed == SortKeyed([i \in 1 .. Len(recs) |->
                    [name |-> recs[i].Pessoa, time |-> recs[i].DataHora, item |-> recs[i]]])
    IN  [i \in 1 .. Len(recs) |-> keyed[i].item]

parseRawData(jsonData) == SortRecords(ScanRows(jsonData, 1))

(***************************************************************************)
(* calculateSingleShift: break detection and synthesis within one shift.   *)
(* rMin is Math.floor(Math.random() * 6) of the first draw, k / RandDen    *)
(* the value of the second draw.                                           *)
(***************************************************************************)
\* the consecutive-punch gaps; durationMinutes is kept in milliseconds
Gaps(punches) ==
    [i \in 1 .. Len(punches) - 1 |->
        [start |-> punches[i], end |-> punches[i + 1],
         durationMs |-> punches[i + 1] - punches[i]]]

\* a candidate test without the upper bound
isValidGapAtLeastMin(g, cfg) == g.durationMs >= cfg.lunchMinDuration * MsPerMin

\* a candidate test that uses defaultLunchDuration as the upper bound
isValidGapUpToDefault(g, cfg) ==
    /\ g.durationMs >= cfg.lunchMinDuration * MsPerMin
    /\ g.durationMs <= cfg.defaultLunchDuration * MsPerMin

\* durationMinutes >= lunchMinDuration && durationMinutes <= lunchMaxDuration
isValidGap(g, cfg) ==
    /\ g.durationMs >= cfg.lunchMinDuration * MsPerMin
    /\ g.durationMs <= cfg.lunchMaxDuration * MsPerMin

\* twice |midpoint of g - midpoint of the window|
MidDistance(g, w) == Abs(2 * g.start + g.durationMs - (w.start + w.end))

\* the fallback that takes the first candidate
ClosestFromFirst(validGaps, i, best, w) == validGaps[1]

RECURSIVE ClosestFrom(_, _, _, _)
\* validGaps.sort(by distance)[0]: the first gap of least distance
ClosestFrom(validGaps, i, best, w) ==
    IF i > Len(validGaps) THEN best
    ELSE IF MidDistance(validGaps[i], w) < MidDistance(best, w)
    THEN ClosestFrom(validGaps, i + 1, validGaps[i], w)
    ELSE ClosestFrom(validGaps, i + 1, best, w)

\* standardLunch: [found, gap]
StandardLunch(punches, cfg, w) ==
    LET validGaps == SelectSeq(Gaps(punches), LAMBDA g : isValidGap(g, cfg))
        insideWindow == SelectSeq(validGaps, LAMBDA g : g.start >= w.start /\ g.end <= w.end)
    IN  IF Len(validGaps) = 1 THEN [found |-> TRUE, gap |-> validGaps[1]]
        ELSE IF Len(validGaps) > 1
        THEN IF Len(insideWindow) > 0 THEN [found |-> TRUE, gap |-> insideWindow[1]]
             ELSE [found |-> TRUE, gap |-> ClosestFrom(validGaps, 2, validGaps[1], w)]
        ELSE [found |-> FALSE]

\* synthesis that checks the room against the shortest break, not the drawn one
ArtificialLunchBaseRoom(start, end, w, rMin, k) ==
    LET artificialMs == (ArtificialBaseMin + rMin) * MsPerMin
        validPeriodStart == Max(start + SafeBufferMin * MsPerMin, w.start)
        validPeriodEnd == Min(end - SafeBufferMin * MsPerMin, w.end)
        availableTime == validPeriodEnd - validPeriodStart
    IN  IF availableTime >= ArtificialBaseMin * MsPerMin
        THEN LET randomOffset == (k * Max(availableTime - artificialMs, 0)) \div RandDen
             IN  [placed |-> TRUE, lunchStart |-> validPeriodStart + randomOffset,
                  lunchEnd |-> validPeriodStart + randomOffset + artificialMs]
        ELSE [placed |-> FALSE]

\* synthesis that trims nothing off the two ends of the shift
ArtificialLunchNoBuffer(start, end, w, rMin, k) ==
    LET artificialMs == (ArtificialBaseMin + rMin) * MsPerMin
        validPeriodStart == Max(start, w.start)
        validPeriodEnd == Min(end, w.end)
        availableTime == validPeriodEnd - validPeriodStart
    IN  IF availableTime >= artificialMs
        THEN LET randomOffset == (k * (availableTime - artificialMs)) \div RandDen
             IN  [placed |-> TRUE, lunchStart |-> validPeriodStart + randomOffset,
                  lunchEnd |-> validPeriodStart + randomOffset + artificialMs]
        ELSE [placed |-> FALSE]

\* synthesis that places the break without checking the room for it
ArtificialLunchUnchecked(start, end, w, rMin, k) ==
    LET artificialMs == (ArtificialBaseMin + rMin) * MsPerMin
        validPeriodStart == Max(start + SafeBufferMin * MsPerMin, w.start)
        validPeriodEnd == Min(end - SafeBufferMin * MsPerMin, w.end)
        availableTime == validPeriodEnd - validPeriodStart
        maxOffset == Max(availableTime - artificialMs, 0)
        randomOffset == (k * maxOffset) \div RandDen
    IN  [placed |-> TRUE, lunchStart |-> validPeriodStart + randomOffset,
         lunchEnd |-> validPeriodStart + randomOffset + artificialMs]

\* the artificial lunch logic: [placed, lunchStart, lunchEnd]
ArtificialLunch(start, end, w, rMin, k) ==
    LET artificialMs == (ArtificialBaseMin + rMin) * MsPerMin
        safeShiftStart == start + SafeBufferMin * MsPerMin
        safeShiftEnd == end - SafeBufferMin * MsPerMin
        validPeriodStart == Max(safeShiftStart, w.start)
        validPeriodEnd == Min(safeShiftEnd, w.end)
        availableTime == validPeriodEnd - validPeriodStart
    IN  IF availableTime >= artificialMs
        THEN LET maxOffset == availableTime - artificialMs
                 randomOffset == (k * maxOffset) \div RandDen
             IN  [placed |-> TRUE, lunchStart |-> validPeriodStart + randomOffset,
                  lunchEnd |-> validPeriodStart + randomOffset + artificialMs]
        ELSE [placed |-> FALSE]

\* worked time that leaves the break in
WorkedMsWithBreak(start, end, hasLunch, lunchStart, lunchEnd) == end - start

\* final worked time: (lunchStart - start) + (end - lunchEnd), clipped at 0
WorkedMs(start, end, hasLunch, lunchStart, lunchEnd) ==
    LET workedMs == IF hasLunch THEN (lunchStart - start) + (end - lunchEnd)
                    ELSE end - start
    IN  IF workedMs < 0 THEN 0 ELSE workedMs

\* parseFloat((workedMs / 3600000).toFixed(2)), in units of 1/MsPerHour hour
\* (a decimal tie is rounded up)
ToFixed2Hours(workedMs) ==
    ((workedMs + MsPerHour \div 200) \div (MsPerHour \div 100)) * (MsPerHour \div 100)

\* calculateSingleShift with an early return for a single punch only
calculateSingleShiftLenOnly(person, punches, cfg, rMin, k) ==
    LET start == punches[1]
        end == punches[Len(punches)]
        shiftDurationMs == end - start
    IN  IF Len(punches) < 2
        THEN [id |-> <<person, start>>, person |-> person, date |-> formatDateOnly(start),
              startTime |-> start, endTime |-> end,
              lunchStart |-> Null, lunchEnd |-> Null,
              workedHours |-> shiftDurationMs,
              workedTimeStr |-> formatDuration(shiftDurationMs),
              lunchType |-> "NONE",
              warnings |-> <<"Turno com registro unico ou muito curto">>,
              punches |-> punches, workedMs |-> shiftDurationMs,
              artificialMin |-> Null]
        ELSE
          LET w == getLunchWindow(start)
              standardLunch == StandardLunch(punches, cfg, w)
              art == IF standardLunch.found THEN [placed |-> FALSE]
                     ELSE ArtificialLunch(start, end, w, rMin, k)
              hasLunch == standardLunch.found \/ art.placed
              lunchStart == IF standardLunch.found THEN standardLunch.gap.start
                            ELSE IF art.placed THEN art.lunchStart ELSE Null
              lunchEnd == IF standardLunch.found THEN standardLunch.gap.end
                          ELSE IF art.placed THEN art.lunchEnd ELSE Null
              lunchType == IF standardLunch.found THEN "NORMAL"
                           ELSE IF art.placed THEN "ARTIFICIAL" ELSE "NONE"
              workedMs == WorkedMs(start, end, hasLunch, lunchStart, lunchEnd)
          IN  [id |-> <<person, start>>, person |-> person, date |-> formatDateOnly(start),
               startTime |-> start, endTime |-> end,
               lunchStart |-> lunchStart, lunchEnd |-> lunchEnd,
               workedHours |-> ToFixed2Hours(workedMs),
               workedTimeStr |-> formatDuration(workedMs),
               lunchType |-> lunchType,
               warnings |-> << >>,
               punches |-> punches, workedMs |-> workedMs,
               artificialMin |-> IF standardLunch.found THEN Null
                                 ELSE ArtificialBaseMin + rMin]

\* The returned ProcessedShift.  workedHours is in units of 1/MsPerHour hour.
\* punches (the argument), workedMs and artificialMin (locals; Null when no
\* target length is drawn) are kept for observation.
calculateSingleShift(person, punches, cfg, rMin, k) ==
    LET start == punches[1]
        end == punches[Len(punches)]
        shiftDurationMs == end - start
    IN  IF Len(punches) < 2 \/ shiftDurationMs < MsPerHour
        THEN [id |-> <<person, start>>, person |-> person, date |-> formatDateOnly(start),
              startTime |-> start, endTime |-> end,
              lunchStart |-> Null, lunchEnd |-> Null,
              workedHours |-> shiftDurationMs,
              workedTimeStr |-> formatDuration(shiftDurationMs),
              lunchType |-> "NONE",
              warnings |-> <<"Turno com registro unico ou muito curto">>,
              punches |-> punches, workedMs |-> shiftDurationMs,
              artificialMin |-> Null]
        ELSE
          LET w == getLunchWindow(start)
              standardLunch == StandardLunch(punches, cfg, w)
              art == IF standardLunch.found THEN [placed |-> FALSE]
                     ELSE ArtificialLunch(start, end, w, rMin, k)
              hasLunch == standardLunch.found \/ art.placed
              lunchStart == IF standardLunch.found THEN standardLunch.gap.start
                            ELSE IF art.placed THEN art.lunchStart ELSE Null
              lunchEnd == IF standardLunch.found THEN standardLunch.gap.end
                          ELSE IF art.placed THEN art.lunchEnd ELSE Null
              lunchType == IF standardLunch.found THEN "NORMAL"
                           ELSE IF art.placed THEN "ARTIFICIAL" ELSE "NONE"
              workedMs == WorkedMs(start, end, hasLunch, lunchStart, lunchEnd)
          IN  [id |-> <<person, start>>, person |-> person, date |-> formatDateOnly(start),
               startTime |-> start, endTime |-> end,
               lunchStart |-> lunchStart, lunchEnd |-> lunchEnd,
               workedHours |-> ToFixed2Hours(workedMs),
               workedTimeStr |-> formatDuration(workedMs),
               lunchType |-> lunchType,
               warnings |-> << >>,
               punches |-> punches, workedMs |-> workedMs,
               artificialMin |-> IF standardLunch.found THEN Null
                                 ELSE ArtificialBaseMin + rMin]

(***************************************************************************)
(* Grouping by person (a Map keeps the order of first insertion).          *)
(***************************************************************************)
RECURSIVE PersonOrderFrom(_, _, _)
PersonOrderFrom(recs, i, seen) ==
    IF i > Len(recs) THEN << >>
    ELSE IF recs[i].Pessoa \in seen THEN PersonOrderFrom(recs, i + 1, seen)
    ELSE <<recs[i].Pessoa>> \o PersonOrderFrom(recs, i + 1, seen \cup {recs[i].Pessoa})

\* the keys of groupedByPerson, in insertion order
PersonOrder(recs) == PersonOrderFrom(recs, 1, {})

\* groupedByPerson.get(person)
PersonRecords(recs, person) == SelectSeq(recs, LAMBDA r : r.Pessoa = person)

(***************************************************************************)
(* processRecords: segmentation of each person's punches, full detail.     *)
(***************************************************************************)
\* the test that also asks for a later punch
KeepInShiftApart(diffMs, totalMs, cfg) ==
    /\ diffMs > 0
    /\ diffMs <= cfg.shiftThresholdHours * MsPerHour
    /\ totalMs <= FullCapHours * MsPerHour

\* the test with a strict gap comparison
KeepInShiftStrict(diffMs, totalMs, cfg) ==
    /\ diffMs < cfg.shiftThresholdHours * MsPerHour
    /\ totalMs <= FullCapHours * MsPerHour

\* the test without the 18 h safety lock
KeepInShiftNoCap(diffMs, totalMs, cfg) ==
    diffMs <= cfg.shiftThresholdHours * MsPerHour

\* diffHours <= config.shiftThresholdHours && totalDurationHours <= 18
KeepInShift(diffMs, totalMs, cfg) ==
    /\ diffMs <= cfg.shiftThresholdHours * MsPerHour
    /\ totalMs <= FullCapHours * MsPerHour

RECURSIVE SegmentFull(_, _, _, _)
\* the scan from punch i with currentShiftPunches = cur: the punch lists
\* handed to calculateSingleShift, in call order
SegmentFull(punches, i, cur, cfg) ==
    IF i > Len(punches) THEN (IF Len(cur) > 0 THEN <<cur>> ELSE << >>)
    ELSE IF Len(cur) = 0 THEN SegmentFull(punches, i + 1, <<punches[i]>>, cfg)
    ELSE IF KeepInShift(punches[i] - cur[Len(cur)], punches[i] - cur[1], cfg)
    THEN SegmentFull(punches, i + 1, Append(cur, punches[i]), cfg)
    ELSE <<cur>> \o SegmentFull(punches, i + 1, <<punches[i]>>, cfg)

\* the calls of calculateSingleShift of one person: [person, punches]
PersonCalls(recs, person, cfg) ==
    LET personRecords == PersonRecords(recs, person)
        punches == [i \in 1 .. Len(personRecords) |-> personRecords[i].DataHora]
        groups == SegmentFull(punches, 1, << >>, cfg)
    IN  [i \in 1 .. Len(groups) |-> [person |-> person, punches |-> groups[i]]]

RECURSIVE AllCallsFrom(_, _, _, _)
AllCallsFrom(recs, order, i, cfg) ==
    IF i > Len(order) THEN << >>
    ELSE PersonCalls(recs, order[i], cfg) \o AllCallsFrom(recs, order, i + 1, cfg)

\* every call of calculateSingleShift that processRecords makes, in order
AllCalls(recs, cfg) == AllCallsFrom(recs, PersonOrder(recs), 1, cfg)

RECURSIVE ShiftLists(_, _, _)
\* the lists `shifts` can be before the final sort, over all draws
ShiftLists(calls, i, cfg) ==
    IF i > Len(calls) THEN {<< >>}
    ELSE {<<s>> \o rest :
            s \in {calculateSingleShift(calls[i].person, calls[i].punches, cfg, rMin, k) :
                     rMin \in 0 .. ArtificialSpread - 1, k \in 0 .. RandDen - 1},
            rest \in ShiftLists(calls, i + 1, cfg)}

\* shifts.sort(...) of processRecords
SortShifts(list) ==
    LET keyed == SortKeyed([i \in 1 .. Len(list) |->
                    [name |-> list[i].person, time |-> list[i].startTime, item |-> list[i]]])
    IN  [i \in 1 .. Len(list) |-> keyed[i].item]

\* the values processRecords can return, over all pseudorandom draws
processRecords(recs, cfg) ==
    {SortShifts(list) : list \in ShiftLists(AllCalls(recs, cfg), 1, cfg)}

(***************************************************************************)
(* calculateDailyWorkers: one first/last-punch record per shift.           *)
(***************************************************************************)
\* the test with a strict gap comparison
KeepInDailyShiftStrict(diffMs, totalMs) ==
    /\ diffMs < THRESHOLD_HOURS * MsPerHour
    /\ totalMs <= MAX_SHIFT_DURATION_HOURS * MsPerHour

\* the test with the two limits taken in minutes
KeepInDailyShiftMinutes(diffMs, totalMs) ==
    /\ diffMs <= THRESHOLD_HOURS * MsPerMin
    /\ totalMs <= MAX_SHIFT_DURATION_HOURS * MsPerMin

\* diffHours <= THRESHOLD_HOURS && totalDuration <= MAX_SHIFT_DURATION_HOURS
KeepInDailyShift(diffMs, totalMs) ==
    /\ diffMs <= THRESHOLD_HOURS * MsPerHour
    /\ totalMs <= MAX_SHIFT_DURATION_HOURS * MsPerHour

RECURSIVE SegmentDaily(_, _, _)
\* the scan from record i with currentShiftPunches = cur: the record lists
\* handed to finalizeShift, in call order
SegmentDaily(personRecords, i, cur) ==
    IF i > Len(personRecords) THEN (IF Len(cur) > 0 THEN <<cur>> ELSE << >>)
    ELSE IF Len(cur) = 0 THEN SegmentDaily(personRecords, i + 1, <<personRecords[i]>>)
    ELSE IF KeepInDailyShift(personRecords[i].DataHora - cur[Len(cur)].DataHora,
                             personRecords[i].DataHora - cur[1].DataHora)
    THEN SegmentDaily(personRecords, i + 1, Append(cur, personRecords[i]))
    ELSE <<cur>> \o SegmentDaily(personRecords, i + 1, <<personRecords[i]>>)

\* findVal(keywords) on the original row
FindVal(row, kws) ==
    LET key == FindKey(row, kws)
    IN  IF key # 0 THEN Trim(StringOf(row[key].val)) ELSE << >>

RECURSIVE FindDailyGapAnyLength(_, _, _)
\* a search that takes the first gap overlapping the window, of any length
FindDailyGapAnyLength(gaps, i, w) ==
    IF i > Len(gaps) THEN [found |-> FALSE]
    ELSE IF Max(gaps[i].start, w.start) < Min(gaps[i].end, w.end)
    THEN [found |-> TRUE, gap |-> gaps[i]]
    ELSE FindDailyGapAnyLength(gaps, i + 1, w)

\* gaps.find(...): the first gap of 45-75 min that overlaps the window
RECURSIVE FindDailyGap(_, _, _)
FindDailyGap(gaps, i, w) ==
    IF i > Len(gaps) THEN [found |-> FALSE]
    ELSE IF /\ gaps[i].durationMs >= DailyLunchMin * MsPerMin
            /\ gaps[i].durationMs <= DailyLunchMax * MsPerMin
            /\ Max(gaps[i].start, w.start) < Min(gaps[i].end, w.end)
    THEN [found |-> TRUE, gap |-> gaps[i]]
    ELSE FindDailyGap(gaps, i + 1, w)

\* The DailyWorkerRecord pushed by finalizeShift.  The locals punchDates,
\* durationMs, windowStart, windowEnd and validGap are kept for observation.
finalizeShift(punches, personName, jsonData) ==
    LET firstRecord == punches[1]
        lastRecord == punches[Len(punches)]
        start == firstRecord.DataHora
        end == lastRecord.DataHora
        punchDates == [i \in 1 .. Len(punches) |-> punches[i].DataHora]
        w == getLunchWindow(start)
        validGap == FindDailyGap(Gaps(punchDates), 1, w)
        durationMs == IF validGap.found THEN (end - start) - validGap.gap.durationMs
                      ELSE end - start
        originalRow == jsonData[firstRecord.OriginalRow]
    IN  [id |-> <<personName, start>>,
         nome |-> personName,
         cpf |-> FindVal(originalRow, {"cpf", "documento"}),
         data |-> formatDateOnly(start),
         chegada |-> start,
         saida |-> end,
         horaTotal |-> formatDuration(durationMs),
         categoria |-> FindVal(originalRow, {"categoria", "função", "funcao", "cargo"}),
         grupo |-> IF firstRecord.Grupo # << >> /\ firstRecord.Grupo # DefaultGroup
                   THEN firstRecord.Grupo
                   ELSE FindVal(originalRow, {"grupo", "depto", "departamento", "setor"}),
         punches |-> punchDates, durationMs |-> durationMs,
         windowStart |-> w.start, windowEnd |-> w.end,
         breakStart |-> IF validGap.found THEN validGap.gap.start ELSE Null,
         breakEnd |-> IF validGap.found THEN validGap.gap.end ELSE Null]

\* personRecords.sort(by time) of calculateDailyWorkers
SortByTime(recs) ==
    LET keyed == SortKeyed([i \in 1 .. Len(recs) |->
                    [name |-> << >>, time |-> recs[i].DataHora, item |-> recs[i]]])
    IN  [i \in 1 .. Len(recs) |-> keyed[i].item]

\* the records one person contributes to `output`
PersonDaily(recs, person, jsonData) ==
    LET groups == SegmentDaily(SortByTime(PersonRecords(recs, person)), 1, << >>)
    IN  [i \in 1 .. Len(groups) |-> finalizeShift(groups[i], person, jsonData)]

RECURSIVE AllDailyFrom(_, _, _, _)
AllDailyFrom(recs, order, i, jsonData) ==
    IF i > Len(order) THEN << >>
    ELSE PersonDaily(recs, order[i], jsonData) \o AllDailyFrom(recs, order, i + 1, jsonData)

\* output.sort(...) of calculateDailyWorkers
SortDaily(list) ==
    LET keyed == SortKeyed([i \in 1 .. Len(list) |->
                    [name |-> list[i].nome, time |-> list[i].chegada, item |-> list[i]]])
    IN  [i \in 1 .. Len(list) |-> keyed[i].item]

calculateDailyWorkers(recs, jsonData) ==
    SortDaily(AllDailyFrom(recs, PersonOrder(recs), 1, jsonData))

(***************************************************************************)
(* processInformationIntersection.  A row of table A or B is              *)
(* [ref, cells]: ref is the identity of the row object.                    *)
(***************************************************************************)
NameKeywords == {"nome", "pessoa", "funcionario", "empregado", "colaborador"}

\* getNameFromRow without the conversion to lower case
getNameFromRowCaseSensitive(row) ==
    LET nameKey == FindKey(row.cells, NameKeywords)
    IN  IF nameKey # 0 /\ Truthy(row.cells[nameKey].val)
        THEN [ok |-> TRUE, name |-> Trim(StringOf(row.cells[nameKey].val))]
        ELSE [ok |-> FALSE, name |-> << >>]

\* getNameFromRow: [ok, name]; ok = FALSE is the null result
getNameFromRow(row) ==
    LET nameKey == FindKey(row.cells, NameKeywords)
    IN  IF nameKey # 0 /\ Truthy(row.cells[nameKey].val)
        THEN [ok |-> TRUE, name |-> ToLowerCase(Trim(StringOf(row.cells[nameKey].val)))]
        ELSE [ok |-> FALSE, name |-> << >>]

\* the whitelist Set built from file 2
Whitelist(d2) ==
    {getNameFromRow(d2[i]).name :
        i \in {j \in 1 .. Len(d2) : getNameFromRow(d2[j]).ok /\ getNameFromRow(d2[j]).name # << >>}}

\* a filter that keeps every row of file 1 with a resolvable name
KeepRowAnyName(row, whitelist) ==
    getNameFromRow(row).ok /\ getNameFromRow(row).name # << >>

\* the filter predicate: name && whitelist.has(name)
KeepRow(row, whitelist) ==
    /\ getNameFromRow(row).ok
    /\ getNameFromRow(row).name # << >>
    /\ getNameFromRow(row).name \in whitelist

processInformationIntersection(d1, d2) ==
    LET whitelist == Whitelist(d2)
        filteredData == SelectSeq(d1, LAMBDA row : KeepRow(row, whitelist))
    IN  [filteredData |-> filteredData, initialCount |-> Len(d1),
         finalCount |-> Len(filteredData)]

(***************************************************************************)
(* mergeFiles.  results is the array Promise.all resolves to: the decoded  *)
(* table of every file, in the order of the files.                         *)
(***************************************************************************)
RECURSIVE AllRowsFrom(_, _)
\* results.forEach(rows => { for (const row of rows) allRows.push(row) })
AllRowsFrom(results, i) ==
    IF i > Len(results) THEN << >>
    ELSE results[i] \o AllRowsFrom(results, i + 1)

\* the outcome of the call: thrown, or the rows of the sheet "Unificado"
\* of the returned file and the returned count
mergeFiles(results) ==
    LET allRows == AllRowsFrom(results, 1)
    IN  IF Len(allRows) = 0
        THEN [thrown |-> TRUE, rows |-> << >>, count |-> 0]
        ELSE [thrown |-> FALSE, rows |-> allRows, count |-> Len(allRows)]

(***************************************************************************)
(* Inputs.                                                                 *)
(***************************************************************************)
At(day, h, m) == day * DayMs + h * MsPerHour + m * MsPerMin

DateCell(t) == [type |-> "date", t |-> t]
TextCell(chars) == [type |-> "string", chars |-> chars, date |-> [valid |-> FALSE, t |-> 0]]
DateTextCell(chars, t) == [type |-> "string", chars |-> chars, date |-> [valid |-> TRUE, t |-> t]]
NumberCell(n) == [type |-> "number", n |-> n]
Cell(key, val) == [key |-> key, val |-> val]

Ana == <<65, 110, 97>>
AnaPadded == <<32, 65, 110, 97, 32>>      \* " Ana "
AnaUpper == <<32, 65, 78, 65, 32>>        \* " ANA "
AnaLower == <<97, 110, 97>>               \* "ana"
Bia == <<66, 105, 97>>
Bruno == <<66, 114, 117, 110, 111>>
Blank == <<32, 32>>
Dept == <<84, 73>>                         \* "TI"
Text16 == <<50, 48, 50, 48, 45, 48, 49, 45, 48, 50, 32, 49, 50, 58, 48, 53>>
Text5 == <<49, 50, 58, 48, 53>>

\* the configurations: the default, the 12 h override of the shift
\* identifier, and one caller-supplied configuration
Configs ==
    {DEFAULT_CONFIG,
     [DEFAULT_CONFIG EXCEPT !.shiftThresholdHours = 12],
     [shiftThresholdHours |-> 20, lunchMinDuration |-> 0,
      lunchMaxDuration |-> 75, defaultLunchDuration |-> 60]}

StartTimes == {At(1, 2, 0), At(1, 8, 0), At(1, 14, 0), At(1, 22, 0)}

\* the gaps between consecutive punches of a generated table: a double
\* punch, a short pause, a meal break, half a day's work, and the
\* configured threshold exactly and one millisecond more
GapChoices(cfg) ==
    {0, 30 * MsPerMin, 65 * MsPerMin, 4 * MsPerHour,
     cfg.shiftThresholdHours * MsPerHour, cfg.shiftThresholdHours * MsPerHour + 1}

RECURSIVE PunchRuns(_, _)
\* the ascending punch sequences of n punches
PunchRuns(n, cfg) ==
    IF n = 1 THEN {<<t>> : t \in StartTimes}
    ELSE {Append(run, run[Len(run)] + g) : run \in PunchRuns(n - 1, cfg), g \in GapChoices(cfg)}

\* a vertical export: one row per punch of one person
VerticalTable(name, run) ==
    [i \in 1 .. Len(run) |->
        <<Cell("Nome", TextCell(name)), Cell("Data/Hora", DateCell(run[i]))>>]

PunchTables(cfg) ==
    {VerticalTable(Ana, run) : run \in UNION {PunchRuns(n, cfg) : n \in 1 .. MaxPunches}}

\* the end-to-end scenario of one person with four punches on one day
AnaTable ==
    VerticalTable(Ana, <<At(1, 8, 0), At(1, 12, 5), At(1, 13, 10), At(1, 17, 0)>>)

\* the end-to-end scenario of one person with two punches eight hours apart
BrunoTable == VerticalTable(Bruno, <<At(1, 8, 0), At(1, 16, 0)>>)

\* the end-to-end scenario of a night shift that crosses midnight
NightTable == VerticalTable(Bia, <<At(1, 22, 0), At(2, 2, 0), At(2, 6, 30)>>)

\* a shift whose usable interval, 10:30 to 11:32, is 62 minutes long
EdgeTable == VerticalTable(Bia, <<At(1, 8, 0), At(1, 11, 47)>>)

ScenarioTables == {AnaTable, BrunoTable, NightTable, EdgeTable}

\* rows of heterogeneous exports
RowChoices ==
    { <<Cell("Nome", TextCell(Bia)), Cell("Data/Hora", DateCell(At(1, 8, 0)))>>,
      <<Cell("Nome", TextCell(AnaPadded)), Cell("Data", DateCell(At(1, 0, 0))),
        Cell("Entrada", DateCell(At(1, 13, 10))), Cell("Saida", DateCell(At(1, 8, 0))),
        Cell("Total Horas", DateCell(At(1, 9, 0)))>>,
      <<Cell("Grupo", TextCell(Dept)), Cell("Pessoa", TextCell(Ana)),
        Cell("Entrada", DateTextCell(Text16, At(1, 12, 5))),
        Cell("Saida", DateTextCell(Text5, At(1, 17, 0))),
        Cell("Obs", DateTextCell(Text16, At(1, 12, 5)))>>,
      <<Cell("Nome", TextCell(Ana)), Cell("Data/Hora", DateCell(At(1, 8, 0)))>>,
      <<Cell("Nome", TextCell(Ana)), Cell("Entrada", DateCell(At(0, 0, 0) - DayMs + 9 * MsPerHour)),
        Cell("Saida", TextCell(Text16)), Cell("Cargo", NumberCell(7))>>,
      <<Cell("CPF", NumberCell(1)), Cell("Data/Hora", DateCell(At(1, 8, 0)))>>,
      <<Cell("Nome", TextCell(Blank)), Cell("Data/Hora", DateCell(At(1, 8, 0)))>> }

RECURSIVE RowSeqs(_)
RowSeqs(n) ==
    IF n = 0 THEN {<< >>}
    ELSE {Append(t, r) : t \in RowSeqs(n - 1), r \in RowChoices}

MixedTables == UNION {RowSeqs(n) : n \in 1 .. MaxRows}

Tables(cfg) == PunchTables(cfg) \cup MixedTables \cup ScenarioTables

NoWindow == [start |-> 0, end |-> 0]
NoResult == [filteredData |-> << >>, initialCount |-> 0, finalCount |-> 0]
NoMerge == [rows |-> << >>, count |-> 0]
NoReads == [slots |-> << >>, order |-> << >>]
Unmounted == [mounted |-> FALSE]

(***************************************************************************)
(* The processing pipeline: a decoded table is handed either to            *)
(* processTimesheetFile or to processDailyWorkers.                         *)
(***************************************************************************)
Init ==
    /\ pc = "loaded"
    /\ config \in Configs
    /\ table \in Tables(config)
    /\ records = << >>
    /\ shifts = << >>
    /\ daily = << >>
    /\ shiftStart = 0
    /\ window = NoWindow
    /\ data1 = << >>
    /\ data2 = << >>
    /\ isect = NoResult
    /\ merged = NoMerge
    /\ files = << >>
    /\ reads = NoReads
    /\ merger = Unmounted
    /\ app = Unmounted
    /\ analyzer = Unmounted
    /\ sheets = << >>

\* reader.onload of processTimesheetFile: parseRawData, then processRecords
ProcessTimesheetFile ==
    /\ pc = "loaded"
    /\ records' = parseRawData(table)
    /\ shifts' \in processRecords(records', config)
    /\ pc' = "processed"
    /\ UNCHANGED <<table, config, daily, shiftStart, window, data1, data2, isect, merged,
                   uiVars>>

\* reader.onload of processDailyWorkers: parseRawData, then calculateDailyWorkers
ProcessDailyWorkers ==
    /\ pc = "loaded"
    /\ records' = parseRawData(table)
    /\ daily' = calculateDailyWorkers(records', table)
    /\ pc' = "daily"
    /\ UNCHANGED <<table, config, shifts, shiftStart, window, data1, data2, isect, merged,
                   uiVars>>

Next == ProcessTimesheetFile \/ ProcessDailyWorkers

Spec == Init /\ [][Next]_vars

(***************************************************************************)
(* processTimesheetFile on the tables whose possible results are compared  *)
(* with each other, one result for every sequence of pseudorandom draws.   *)
(***************************************************************************)
DrawTables(cfg) ==
    {VerticalTable(Ana, run) : run \in UNION {PunchRuns(n, cfg) : n \in 1 .. MaxDrawPunches}}
        \cup ScenarioTables

InitDraws ==
    /\ pc = "loaded"
    /\ config \in Configs
    /\ table \in DrawTables(config)
    /\ records = << >>
    /\ shifts = << >>
    /\ daily = << >>
    /\ shiftStart = 0
    /\ window = NoWindow
    /\ data1 = << >>
    /\ data2 = << >>
    /\ isect = NoResult
    /\ merged = NoMerge
    /\ files = << >>
    /\ reads = NoReads
    /\ merger = Unmounted
    /\ app = Unmounted
    /\ analyzer = Unmounted
    /\ sheets = << >>

NextDraws == ProcessTimesheetFile

SpecDraws == InitDraws /\ [][NextDraws]_vars

(***************************************************************************)
(* The meal-window resolver on its own: getLunchWindow applied to a shift  *)
(* start of every hour of the day.                                         *)
(***************************************************************************)
WindowStarts ==
    {d * DayMs + h * MsPerHour + o : d \in 0 .. MaxDay, h \in 0 .. 23, o \in {0, MsPerHour - 1}}

InitWindow ==
    /\ pc = "window_in"
    /\ shiftStart \in WindowStarts
    /\ window = NoWindow
    /\ table = << >>
    /\ config = DEFAULT_CONFIG
    /\ records = << >>
    /\ shifts = << >>
    /\ daily = << >>
    /\ data1 = << >>
    /\ data2 = << >>
    /\ isect = NoResult
    /\ merged = NoMerge
    /\ files = << >>
    /\ reads = NoReads
    /\ merger = Unmounted
    /\ app = Unmounted
    /\ analyzer = Unmounted
    /\ sheets = << >>

ResolveWindow ==
    /\ pc = "window_in"
    /\ window' = getLunchWindow(shiftStart)
    /\ pc' = "window_out"
    /\ UNCHANGED <<table, config, records, shifts, daily, shiftStart, data1, data2, isect, merged,
                   uiVars>>

NextWindow == ResolveWindow

SpecWindow == InitWindow /\ [][NextWindow]_vars

(***************************************************************************)
(* The name-intersection filter and the merge on two decoded tables (in    *)
(* state "isect_in" the two files have been read).                         *)
(***************************************************************************)
IsectRowChoices ==
    { <<Cell("Nome", TextCell(Ana))>>,
      <<Cell("CPF", NumberCell(1)), Cell("Colaborador", TextCell(AnaUpper))>>,
      <<Cell("Pessoa", TextCell(Bia)), Cell("Nome", TextCell(Ana))>>,
      <<Cell("Nome", TextCell(Blank))>>,
      <<Cell("Nome", NumberCell(0))>>,
      <<Cell("CPF", NumberCell(1)), Cell("Cargo", TextCell(AnaLower))>> }

RECURSIVE CellSeqs(_)
CellSeqs(n) ==
    IF n = 0 THEN {<< >>}
    ELSE {Append(t, r) : t \in CellSeqs(n - 1), r \in IsectRowChoices}

\* the decoded tables of one file: every row object has its own identity
IsectTables(file) ==
    {[i \in 1 .. Len(t) |-> [ref |-> <<file, i>>, cells |-> t[i]]] :
        t \in UNION {CellSeqs(n) : n \in 0 .. MaxIsectRows}}

InitIntersection ==
    /\ pc = "isect_in"
    /\ data1 \in IsectTables("file1")
    /\ data2 \in IsectTables("file2")
    /\ isect = NoResult
    /\ merged = NoMerge
    /\ files = << >>
    /\ reads = NoReads
    /\ merger = Unmounted
    /\ app = Unmounted
    /\ analyzer = Unmounted
    /\ sheets = << >>
    /\ table = << >>
    /\ config = DEFAULT_CONFIG
    /\ records = << >>
    /\ shifts = << >>
    /\ daily = << >>
    /\ shiftStart = 0
    /\ window = NoWindow

Intersect ==
    /\ pc = "isect_in"
    /\ isect' = processInformationIntersection(data1, data2)
    /\ pc' = "isect_out"
    /\ UNCHANGED <<table, config, records, shifts, daily, shiftStart, window,
                   data1, data2, merged, uiVars>>

\* mergeFiles on the same two files; a throw leaves no result
MergeFiles ==
    /\ pc = "isect_in"
    /\ LET outcome == mergeFiles(<<data1, data2>>)
       IN  IF outcome.thrown
           THEN pc' = "merge_failed" /\ merged' = NoMerge
           ELSE /\ pc' = "merge_out"
                /\ merged' = [rows |-> outcome.rows, count |-> outcome.count]
    /\ UNCHANGED <<table, config, records, shifts, daily, shiftStart, window,
                   data1, data2, isect, uiVars>>

NextIntersection == Intersect \/ MergeFiles

SpecIntersection == InitIntersection /\ [][NextIntersection]_vars

(***************************************************************************)
(* mergeFiles as a process: every file is read by its own FileReader, the  *)
(* reads complete in any order, and the code after                         *)
(* `await Promise.all(...)` runs once all have resolved or one has         *)
(* rejected.  files[i] is what the read of the i-th file yields: the       *)
(* decoded rows, or a failure (onerror, or read / sheet_to_json throwing). *)
(***************************************************************************)
MergeCellChoices ==
    { <<Cell("Nome", TextCell(Ana))>>, <<Cell("Nome", TextCell(Bia))>> }

RECURSIVE MergeCellSeqs(_)
MergeCellSeqs(n) ==
    IF n = 0 THEN {<< >>}
    ELSE {Append(t, r) : t \in MergeCellSeqs(n - 1), r \in MergeCellChoices}

\* what reading the f-th file can yield
ReadOutcomes(f) ==
    {[ok |-> FALSE, rows |-> << >>]}
        \cup {[ok |-> TRUE, rows |-> [i \in 1 .. Len(t) |-> [ref |-> <<f, i>>, cells |-> t[i]]]] :
                t \in UNION {MergeCellSeqs(n) : n \in 0 .. MaxMergeRows}}

RECURSIVE FileSeqs(_)
FileSeqs(n) ==
    IF n = 0 THEN {<< >>}
    ELSE {Append(fs, o) : fs \in FileSeqs(n - 1), o \in ReadOutcomes(n)}

PendingSlot == [state |-> "pending", rows |-> << >>]

\* the array Promise.all resolves to, were it filled in completion order
ResultsInCompletionOrder(slots, order) ==
    [k \in 1 .. Len(order) |-> slots[order[k]].rows]

\* the array Promise.all resolves to: the value of the i-th promise at i
PromiseAllResults(slots, order) ==
    [i \in 1 .. Len(slots) |-> slots[i].rows]

InitMerge ==
    /\ pc = "merge_reading"
    /\ files \in UNION {FileSeqs(n) : n \in 0 .. MaxFiles}
    /\ reads = [slots |-> [i \in 1 .. Len(files) |-> PendingSlot], order |-> << >>]
    /\ merged = NoMerge
    /\ table = << >>
    /\ config = DEFAULT_CONFIG
    /\ records = << >>
    /\ shifts = << >>
    /\ daily = << >>
    /\ shiftStart = 0
    /\ window = NoWindow
    /\ data1 = << >>
    /\ data2 = << >>
    /\ isect = NoResult
    /\ merger = Unmounted
    /\ app = Unmounted
    /\ analyzer = Unmounted
    /\ sheets = << >>

\* reader.onload of the i-th read: the file decodes, resolve(jsonData)
ReadResolve(i) ==
    /\ pc = "merge_reading"
    /\ reads.slots[i].state = "pending"
    /\ files[i].ok
    /\ reads' = [slots |-> [reads.slots EXCEPT ![i] =
                               [state |-> "resolved", rows |-> files[i].rows]],
                 order |-> Append(reads.order, i)]
    /\ UNCHANGED <<pc, table, config, records, shifts, daily, shiftStart, window,
                   data1, data2, isect, merged, files, merger, app, analyzer, sheets>>

\* reader.onerror, or the catch of reader.onload, of the i-th read: reject
ReadReject(i) ==
    /\ pc = "merge_reading"
    /\ reads.slots[i].state = "pending"
    /\ ~files[i].ok
    /\ reads' = [slots |-> [reads.slots EXCEPT ![i] =
                               [state |-> "rejected", rows |-> << >>]],
                 order |-> Append(reads.order, i)]
    /\ UNCHANGED <<pc, table, config, records, shifts, daily, shiftStart, window,
                   data1, data2, isect, merged, files, merger, app, analyzer, sheets>>

\* the code after the await, all reads resolved: gather the rows, throw on
\* an empty total, else build the file and return it with the count
MergeCompose ==
    /\ pc = "merge_reading"
    /\ \A i \in 1 .. Len(files) : reads.slots[i].state = "resolved"
    /\ LET outcome == mergeFiles(PromiseAllResults(reads.slots, reads.order))
       IN  IF outcome.thrown
           THEN pc' = "merge_failed" /\ merged' = NoMerge
           ELSE /\ pc' = "merge_out"
                /\ merged' = [rows |-> outcome.rows, count |-> outcome.count]
    /\ UNCHANGED <<table, config, records, shifts, daily, shiftStart, window,
                   data1, data2, isect, files, reads, merger, app, analyzer, sheets>>

\* the catch block, one read rejected: the error is thrown to the caller
MergeAbort ==
    /\ pc = "merge_reading"
    /\ \E i \in 1 .. Len(files) : reads.slots[i].state = "rejected"
    /\ pc' = "merge_failed"
    /\ merged' = NoMerge
    /\ UNCHANGED <<table, config, records, shifts, daily, shiftStart, window,
                   data1, data2, isect, files, reads, merger, app, analyzer, sheets>>

NextMerge ==
    \/ \E i \in 1 .. Len(files) : ReadResolve(i)
    \/ \E i \in 1 .. Len(files) : ReadReject(i)
    \/ MergeCompose
    \/ MergeAbort

SpecMerge == InitMerge /\ [][NextMerge]_vars

(***************************************************************************)
(* The ShiftIdentifier component: the file is processed with the 12 h      *)
(* threshold, the shifts are shown by category and exported, all           *)
(* categories to one workbook or one category to its own.                  *)
(***************************************************************************)
\* sortShortShiftsToBottom with "short" meaning less than one hour
sortShortShiftsToBottomStrict(a, b) ==
    LET isAShort == a.workedHours < MsPerHour
        isBShort == b.workedHours < MsPerHour
    IN  IF isAShort /\ ~isBShort THEN 1
        ELSE IF ~isAShort /\ isBShort THEN -1
        ELSE 0

\* the comparator; workedHours is in units of 1/MsPerHour hour
sortShortShiftsToBottom(a, b) ==
    LET isAShort == a.workedHours <= MsPerHour
        isBShort == b.workedHours <= MsPerHour
    IN  IF isAShort /\ ~isBShort THEN 1
        ELSE IF ~isAShort /\ isBShort THEN -1
        ELSE 0

\* Array.prototype.sort is stable: x goes before the first element that the
\* comparator puts after it
RECURSIVE InsertShort(_, _)
InsertShort(sorted, x) ==
    IF sorted = << >> THEN <<x>>
    ELSE IF sortShortShiftsToBottom(Head(sorted), x) > 0 THEN <<x>> \o sorted
    ELSE <<Head(sorted)>> \o InsertShort(Tail(sorted), x)

RECURSIVE SortShortFrom(_, _, _)
SortShortFrom(list, i, acc) ==
    IF i > Len(list) THEN acc
    ELSE SortShortFrom(list, i + 1, InsertShort(acc, list[i]))

\* list.sort(sortShortShiftsToBottom)
SortShort(list) == SortShortFrom(list, 1, << >>)

\* the category test of exportShiftsByCategory with the afternoon up to 18:59
ExportCategoryLateNight(shift) ==
    LET startHour == getHours(shift.startTime)
    IN  IF startHour >= 5 /\ startHour < 13 THEN "morning"
        ELSE IF startHour >= 13 /\ startHour < 19 THEN "afternoon"
        ELSE "night"

\* the category test of exportShiftsByCategory
ExportCategory(shift) ==
    LET startHour == getHours(shift.startTime)
    IN  IF startHour >= 5 /\ startHour < 13 THEN "morning"
        ELSE IF startHour >= 13 /\ startHour < 18 THEN "afternoon"
        ELSE "night"

\* one sheet: the rows are written from the shifts in this order; an empty
\* list is written as the single "Info" row
Sheet(name, list) == [name |-> name, rows |-> list, info |-> list = << >>]

\* the workbook of exportShiftsByCategory
exportShiftsByCategory(data) ==
    LET morning == SelectSeq(data, LAMBDA sh : ExportCategory(sh) = "morning")
        afternoon == SelectSeq(data, LAMBDA sh : ExportCategory(sh) = "afternoon")
        night == SelectSeq(data, LAMBDA sh : ExportCategory(sh) = "night")
    IN  <<Sheet("morning", SortShort(morning)),
          Sheet("afternoon", SortShort(afternoon)),
          Sheet("night", SortShort(night))>>

\* the workbook of exportSingleSheet
exportSingleSheet(data, sheetName) == <<Sheet(sheetName, SortShort(data))>>

\* getCategorizedData of the component
getCategorizedData(data) ==
    LET hour(sh) == getHours(sh.startTime)
    IN  [morning |-> SelectSeq(data, LAMBDA sh : hour(sh) >= 5 /\ hour(sh) < 13),
         afternoon |-> SelectSeq(data, LAMBDA sh :
                          ~(hour(sh) >= 5 /\ hour(sh) < 13) /\ hour(sh) >= 13 /\ hour(sh) < 18),
         night |-> SelectSeq(data, LAMBDA sh :
                          ~(hour(sh) >= 5 /\ hour(sh) < 13) /\ ~(hour(sh) >= 13 /\ hour(sh) < 18))]

Categories == {"morning", "afternoon", "night"}

\* the punches of one person on one day, as offsets from midnight: none,
\* half an hour from 05:00, a full day with a meal break, one hour and ten
\* seconds of work around a meal break from 13:00, and an hour and a half
\* followed by a meal break from 12:59, from 17:59, from 18:00 and from 04:59
DayPatterns ==
    {<< >>,
     <<At(0, 5, 0), At(0, 5, 30)>>,
     <<At(0, 8, 0), At(0, 12, 0), At(0, 13, 0), At(0, 17, 0)>>,
     <<At(0, 12, 59), At(0, 14, 30), At(0, 15, 30)>>,
     <<At(0, 13, 0), At(0, 13, 30) + 5 * MsPerSec, At(0, 14, 30) + 5 * MsPerSec,
       At(0, 15, 0) + 10 * MsPerSec>>,
     <<At(0, 17, 59), At(0, 19, 30), At(0, 20, 30)>>,
     <<At(0, 18, 0), At(0, 19, 30), At(0, 20, 30)>>,
     <<At(0, 4, 59), At(0, 6, 30), At(0, 7, 30)>>}

\* the k-th person-day of a table: Ana and Bia in turn, day by day
SlotPerson(k) == IF k % 2 = 1 THEN Ana ELSE Bia
SlotDay(k) == 1 + (k - 1) \div 2

RECURSIVE ExportTablesOf(_)
ExportTablesOf(k) ==
    IF k = 0 THEN {<< >>}
    ELSE {t \o VerticalTable(SlotPerson(k), [i \in 1 .. Len(p) |-> SlotDay(k) * DayMs + p[i]]) :
            t \in ExportTablesOf(k - 1), p \in DayPatterns}

ExportTables == ExportTablesOf(MaxExportSlots)

InitExport ==
    /\ pc = "identifier_in"
    /\ table \in ExportTables
    /\ config = [DEFAULT_CONFIG EXCEPT !.shiftThresholdHours = 12]
    /\ records = << >>
    /\ shifts = << >>
    /\ daily = << >>
    /\ shiftStart = 0
    /\ window = NoWindow
    /\ data1 = << >>
    /\ data2 = << >>
    /\ isect = NoResult
    /\ merged = NoMerge
    /\ files = << >>
    /\ reads = NoReads
    /\ merger = Unmounted
    /\ app = Unmounted
    /\ analyzer = Unmounted
    /\ sheets = << >>

\* processFile of the component: processTimesheetFile with the 12 h
\* threshold, setData(result)
ProcessFile ==
    /\ pc = "identifier_in"
    /\ records' = parseRawData(table)
    /\ shifts' \in processRecords(records', config)
    /\ pc' = "identifier_ready"
    /\ UNCHANGED <<table, config, daily, shiftStart, window, data1, data2, isect, merged,
                   uiVars>>

\* handleDownloadAll: exportShiftsByCategory(data) when data is not empty
HandleDownloadAll ==
    /\ pc = "identifier_ready"
    /\ Len(shifts) > 0
    /\ sheets' = exportShiftsByCategory(shifts)
    /\ UNCHANGED <<pc, table, config, records, shifts, daily, shiftStart, window,
                   data1, data2, isect, merged, files, reads, merger, app, analyzer>>

\* handleSingleDownload of one category of getCategorizedData, when not empty
HandleSingleDownload(name) ==
    /\ pc = "identifier_ready"
    /\ LET categoryData == getCategorizedData(shifts)[name]
       IN  /\ Len(categoryData) > 0
           /\ sheets' = exportSingleSheet(categoryData, name)
    /\ UNCHANGED <<pc, table, config, records, shifts, daily, shiftStart, window,
                   data1, data2, isect, merged, files, reads, merger, app, analyzer>>

NextExport ==
    \/ ProcessFile
    \/ HandleDownloadAll
    \/ \E name \in Categories : HandleSingleDownload(name)

SpecExport == InitExport /\ [][NextExport]_vars

(***************************************************************************)
(* The FileMerger component.  Its state lives while the MERGER view is     *)
(* shown.  A File is a tag; "merged" is the file a merge returned.         *)
(***************************************************************************)
FileTags == {"a", "b"}

RECURSIVE TagSeqs(_)
TagSeqs(n) ==
    IF n = 0 THEN {<< >>}
    ELSE {Append(q, f) : q \in TagSeqs(n - 1), f \in FileTags}

\* e.target.files of a selection that is not empty
Selections == UNION {TagSeqs(n) : n \in 1 .. MaxSelect}

\* useState initial values; call is the argument of the mergeFiles call in
\* flight, << >> when there is none
MergerMounted ==
    [mounted |-> TRUE, files |-> << >>, isMerging |-> FALSE, error |-> "none",
     mergedFile |-> "none", mergedCount |-> 0, call |-> << >>]

\* the updater of setFiles without the limit
CombineFilesUnlimited(prev, newFiles) ==
    [files |-> prev \o newFiles, tooMany |-> FALSE]

\* the updater of setFiles in handleFileSelect
CombineFiles(prev, newFiles) ==
    LET combined == prev \o newFiles
    IN  IF Len(combined) > MaxMergeFiles
        THEN [files |-> SubSeq(combined, 1, MaxMergeFiles), tooMany |-> TRUE]
        ELSE [files |-> combined, tooMany |-> FALSE]

\* prev.filter((_, i) => i !== index), index counted from 1
WithoutIndex(list, index) ==
    [i \in 1 .. Len(list) - 1 |-> IF i < index THEN list[i] ELSE list[i + 1]]

InitMerger ==
    /\ pc = "merger"
    /\ merger = MergerMounted
    /\ table = << >>
    /\ config = DEFAULT_CONFIG
    /\ records = << >>
    /\ shifts = << >>
    /\ daily = << >>
    /\ shiftStart = 0
    /\ window = NoWindow
    /\ data1 = << >>
    /\ data2 = << >>
    /\ isect = NoResult
    /\ merged = NoMerge
    /\ files = << >>
    /\ reads = NoReads
    /\ app = Unmounted
    /\ analyzer = Unmounted
    /\ sheets = << >>

\* everything but the component
MergerRest == <<pc, table, config, records, shifts, daily, shiftStart, window,
                data1, data2, isect, merged, files, reads, app, analyzer, sheets>>

\* the file input and the file list are rendered while there is no merged file
MergerSelecting == merger.mounted /\ merger.mergedFile = "none"

\* handleFileSelect with a selection that is not empty; the input is
\* disabled while a merge runs
HandleFileSelect(newFiles) ==
    /\ MergerSelecting
    /\ ~merger.isMerging
    /\ LET c == CombineFiles(merger.files, newFiles)
       IN  merger' = [merger EXCEPT !.error = IF c.tooMany THEN "max" ELSE "none",
                                    !.mergedFile = "none",
                                    !.files = c.files]
    /\ UNCHANGED MergerRest

\* removeFile(index) of a listed file; the button is disabled while a merge runs
RemoveFile(index) ==
    /\ MergerSelecting
    /\ ~merger.isMerging
    /\ index \in 1 .. Len(merger.files)
    /\ merger' = [merger EXCEPT !.files = WithoutIndex(merger.files, index),
                                 !.mergedFile = "none"]
    /\ UNCHANGED MergerRest

\* handleMerge up to the await; the button is disabled with fewer than two
\* files or while a merge runs
HandleMerge ==
    /\ MergerSelecting
    /\ ~(Len(merger.files) < MinMergeFiles \/ merger.isMerging)
    /\ IF Len(merger.files) < MinMergeFiles
       THEN merger' = [merger EXCEPT !.error = "min"]
       ELSE merger' = [merger EXCEPT !.isMerging = TRUE, !.error = "none",
                                     !.call = merger.files]
    /\ UNCHANGED MergerRest

\* handleMerge after the await, mergeFiles returned count rows
MergeReturned(count) ==
    /\ merger.mounted
    /\ merger.call # << >>
    /\ merger' = [merger EXCEPT !.mergedFile = "merged", !.mergedCount = count,
                                 !.isMerging = FALSE, !.call = << >>]
    /\ UNCHANGED MergerRest

\* handleMerge after the await, mergeFiles threw
MergeThrew ==
    /\ merger.mounted
    /\ merger.call # << >>
    /\ merger' = [merger EXCEPT !.error = "merge", !.isMerging = FALSE, !.call = << >>]
    /\ UNCHANGED MergerRest

\* handleContinueMerging
HandleContinueMerging ==
    /\ merger.mounted
    /\ merger.mergedFile # "none"
    /\ merger' = [merger EXCEPT !.files = <<merger.mergedFile>>, !.mergedFile = "none",
                                 !.mergedCount = 0, !.error = "none"]
    /\ UNCHANGED MergerRest

\* the button that starts over: setMergedFile(null); setFiles([])
StartOver ==
    /\ merger.mounted
    /\ merger.mergedFile # "none"
    /\ merger' = [merger EXCEPT !.mergedFile = "none", !.files = << >>]
    /\ UNCHANGED MergerRest

\* onTransfer(mergedFile, target): App shows another view, the component
\* is unmounted
TransferMerged ==
    /\ merger.mounted
    /\ merger.mergedFile # "none"
    /\ merger' = Unmounted
    /\ UNCHANGED MergerRest

\* navigateTo another view of App: the component is unmounted
LeaveMerger ==
    /\ merger.mounted
    /\ merger' = Unmounted
    /\ UNCHANGED MergerRest

\* navigateTo('MERGER'): a new component with the initial state
EnterMerger ==
    /\ ~merger.mounted
    /\ merger' = MergerMounted
    /\ UNCHANGED MergerRest

NextMerger ==
    \/ \E newFiles \in Selections : HandleFileSelect(newFiles)
    \/ \E index \in 1 .. MaxMergeFiles : RemoveFile(index)
    \/ HandleMerge
    \/ \E count \in 1 .. MaxMergeRows : MergeReturned(count)
    \/ MergeThrew
    \/ HandleContinueMerging
    \/ StartOver
    \/ TransferMerged
    \/ LeaveMerger
    \/ EnterMerger

SpecMerger == InitMerger /\ [][NextMerger]_vars

(***************************************************************************)
(* The InformationAnalyzer component.  Its state lives while the INFO view *)
(* is shown.  A File is a tag; "generated" is the file built from a        *)
(* result.  call holds the file1 and file2 captured by the handleProcess   *)
(* whose timer or intersection is still running, << >> when there is none. *)
(***************************************************************************)
NoFile == "none"
NoAnalysis == [present |-> FALSE]

AnalyzerMounted ==
    [mounted |-> TRUE, file1 |-> NoFile, file2 |-> NoFile, isProcessing |-> FALSE,
     result |-> NoAnalysis, error |-> "none", call |-> << >>]

InitAnalyzer ==
    /\ pc = "analyzer"
    /\ analyzer = AnalyzerMounted
    /\ table = << >>
    /\ config = DEFAULT_CONFIG
    /\ records = << >>
    /\ shifts = << >>
    /\ daily = << >>
    /\ shiftStart = 0
    /\ window = NoWindow
    /\ data1 = << >>
    /\ data2 = << >>
    /\ isect = NoResult
    /\ merged = NoMerge
    /\ files = << >>
    /\ reads = NoReads
    /\ merger = Unmounted
    /\ app = Unmounted
    /\ sheets = << >>

\* everything but the component
AnalyzerRest == <<pc, table, config, records, shifts, daily, shiftStart, window,
                  data1, data2, isect, merged, files, reads, merger, app, sheets>>

\* handleFileChange(e, setFile1) with a chosen file; the input is rendered
\* while file1 is null
HandleFile1Change(f) ==
    /\ analyzer.mounted
    /\ analyzer.file1 = NoFile
    /\ analyzer' = [analyzer EXCEPT !.file1 = f, !.error = "none", !.result = NoAnalysis]
    /\ UNCHANGED AnalyzerRest

\* handleFileChange(e, setFile2) with a chosen file; the input is rendered
\* while file2 is null
HandleFile2Change(f) ==
    /\ analyzer.mounted
    /\ analyzer.file2 = NoFile
    /\ analyzer' = [analyzer EXCEPT !.file2 = f, !.error = "none", !.result = NoAnalysis]
    /\ UNCHANGED AnalyzerRest

\* the remove button of file1: setFile1(null)
RemoveFile1 ==
    /\ analyzer.mounted
    /\ analyzer.file1 # NoFile
    /\ analyzer' = [analyzer EXCEPT !.file1 = NoFile]
    /\ UNCHANGED AnalyzerRest

\* the remove button of file2: setFile2(null)
RemoveFile2 ==
    /\ analyzer.mounted
    /\ analyzer.file2 # NoFile
    /\ analyzer' = [analyzer EXCEPT !.file2 = NoFile]
    /\ UNCHANGED AnalyzerRest

\* handleProcess up to setTimeout; the button is disabled without the two
\* files or while processing
HandleProcess ==
    /\ analyzer.mounted
    /\ ~(analyzer.file1 = NoFile \/ analyzer.file2 = NoFile \/ analyzer.isProcessing)
    /\ IF analyzer.file1 = NoFile \/ analyzer.file2 = NoFile
       THEN analyzer' = [analyzer EXCEPT !.error = "select"]
       ELSE analyzer' = [analyzer EXCEPT !.isProcessing = TRUE, !.error = "none",
                                         !.call = <<analyzer.file1, analyzer.file2>>]
    /\ UNCHANGED AnalyzerRest

\* the timer callback, processInformationIntersection(file1, file2) of the
\* captured files returned: setResult, finally setIsProcessing(false)
ProcessReturned ==
    /\ analyzer.mounted
    /\ analyzer.call # << >>
    /\ analyzer' = [analyzer EXCEPT
                      !.result = [present |-> TRUE, file1 |-> analyzer.call[1],
                                  file2 |-> analyzer.call[2]],
                      !.isProcessing = FALSE, !.call = << >>]
    /\ UNCHANGED AnalyzerRest

\* the timer callback, the intersection threw: setError, finally
ProcessThrew ==
    /\ analyzer.mounted
    /\ analyzer.call # << >>
    /\ analyzer' = [analyzer EXCEPT !.error = "process", !.isProcessing = FALSE,
                                     !.call = << >>]
    /\ UNCHANGED AnalyzerRest

\* handleReuseAsInput
HandleReuseAsInput ==
    /\ analyzer.mounted
    /\ analyzer.result.present
    /\ analyzer' = [analyzer EXCEPT !.file1 = "generated", !.file2 = NoFile,
                                     !.result = NoAnalysis, !.error = "none"]
    /\ UNCHANGED AnalyzerRest

\* handleTransfer(target): onTransfer(result.generatedFile, target), App
\* shows another view and the component is unmounted
HandleTransfer ==
    /\ analyzer.mounted
    /\ analyzer.result.present
    /\ analyzer' = Unmounted
    /\ UNCHANGED AnalyzerRest

\* navigateTo another view of App: the component is unmounted
LeaveAnalyzer ==
    /\ analyzer.mounted
    /\ analyzer' = Unmounted
    /\ UNCHANGED AnalyzerRest

\* navigateTo('INFO'): a new component with the initial state
EnterAnalyzer ==
    /\ ~analyzer.mounted
    /\ analyzer' = AnalyzerMounted
    /\ UNCHANGED AnalyzerRest

NextAnalyzer ==
    \/ \E f \in FileTags : HandleFile1Change(f)
    \/ \E f \in FileTags : HandleFile2Change(f)
    \/ RemoveFile1
    \/ RemoveFile2
    \/ HandleProcess
    \/ ProcessReturned
    \/ ProcessThrew
    \/ HandleReuseAsInput
    \/ HandleTransfer
    \/ LeaveAnalyzer
    \/ EnterAnalyzer

SpecAnalyzer == InitAnalyzer /\ [][NextAnalyzer]_vars

(***************************************************************************)
(* The App component.  A File is a tag: "a" and "b" from the uploader,     *)
(* "merged" from the merger view, "generated" from the intersection view.  *)
(* calls holds the file of every handleFileSelected whose timer or         *)
(* processTimesheetFile has not completed yet; processedData is the file   *)
(* whose shifts are displayed, NoFile for the empty list.                  *)
(***************************************************************************)
Views == {"PROCESSOR", "MERGER", "DAILY", "SHIFT_ID", "INFO"}
TransferTargets == {"PROCESSOR", "DAILY"}

AppMounted ==
    [mounted |-> TRUE, isProcessing |-> FALSE, processedData |-> NoFile, error |-> "none",
     fileName |-> NoFile, currentView |-> "PROCESSOR", preloadedFile |-> NoFile,
     calls |-> << >>]

\* the state after handleFileSelected(file) up to setTimeout
handleFileSelected(st, file) ==
    [st EXCEPT !.isProcessing = TRUE, !.error = "none", !.fileName = file,
               !.processedData = NoFile, !.calls = Append(st.calls, file)]

\* the state after handleFileTransfer(file, target) and the effect that
\* follows the render: the preloaded file of the PROCESSOR view is
\* submitted and cleared
handleFileTransfer(st, file, target) ==
    LET shown == [st EXCEPT !.preloadedFile = file, !.currentView = target]
    IN  IF shown.currentView = "PROCESSOR" /\ shown.preloadedFile # NoFile
        THEN [handleFileSelected(shown, shown.preloadedFile) EXCEPT !.preloadedFile = NoFile]
        ELSE shown

InitApp ==
    /\ pc = "app"
    /\ app = AppMounted
    /\ table = << >>
    /\ config = DEFAULT_CONFIG
    /\ records = << >>
    /\ shifts = << >>
    /\ daily = << >>
    /\ shiftStart = 0
    /\ window = NoWindow
    /\ data1 = << >>
    /\ data2 = << >>
    /\ isect = NoResult
    /\ merged = NoMerge
    /\ files = << >>
    /\ reads = NoReads
    /\ merger = Unmounted
    /\ analyzer = Unmounted
    /\ sheets = << >>

\* everything but the component
AppRest == <<pc, table, config, records, shifts, daily, shiftStart, window,
             data1, data2, isect, merged, files, reads, merger, analyzer, sheets>>

\* FileUploader handleChange / handleDrop with a file: the input is
\* disabled and the drop ignored while isProcessing
UploadFile(file) ==
    /\ app.currentView = "PROCESSOR"
    /\ ~app.isProcessing
    /\ Len(app.calls) < MaxCalls
    /\ app' = handleFileSelected(app, file)
    /\ UNCHANGED AppRest

\* navigateTo(view) from the menu
NavigateTo(view) ==
    /\ app' = [app EXCEPT !.currentView = view, !.preloadedFile = NoFile]
    /\ UNCHANGED AppRest

\* onTransfer of the FileMerger with its merged file
TransferFromMerger(target) ==
    /\ app.currentView = "MERGER"
    /\ target = "PROCESSOR" => Len(app.calls) < MaxCalls
    /\ app' = handleFileTransfer(app, "merged", target)
    /\ UNCHANGED AppRest

\* onTransfer of the InformationAnalyzer with its generated file
TransferFromAnalyzer(target) ==
    /\ app.currentView = "INFO"
    /\ target = "PROCESSOR" => Len(app.calls) < MaxCalls
    /\ app' = handleFileTransfer(app, "generated", target)
    /\ UNCHANGED AppRest

\* the timer callback of the i-th call in flight, processTimesheetFile
\* returned: setProcessedData(data), finally setIsProcessing(false)
CallReturned(i) ==
    /\ i \in 1 .. Len(app.calls)
    /\ app' = [app EXCEPT !.processedData = app.calls[i], !.isProcessing = FALSE,
                           !.calls = WithoutIndex(app.calls, i)]
    /\ UNCHANGED AppRest

\* the timer callback of the i-th call in flight, processTimesheetFile
\* threw: setError, finally setIsProcessing(false)
CallThrew(i) ==
    /\ i \in 1 .. Len(app.calls)
    /\ app' = [app EXCEPT !.error = "process", !.isProcessing = FALSE,
                           !.calls = WithoutIndex(app.calls, i)]
    /\ UNCHANGED AppRest

NextApp ==
    \/ \E file \in FileTags : UploadFile(file)
    \/ \E view \in Views : NavigateTo(view)
    \/ \E target \in TransferTargets : TransferFromMerger(target)
    \/ \E target \in TransferTargets : TransferFromAnalyzer(target)
    \/ \E i \in 1 .. MaxCalls : CallReturned(i)
    \/ \E i \in 1 .. MaxCalls : CallThrew(i)

SpecApp == InitApp /\ [][NextApp]_vars

(***************************************************************************)
(* Observations used by the properties.                                    *)
(***************************************************************************)
Processed == pc = "processed"
DailyDone == pc = "daily"
Persons == {records[i].Pessoa : i \in 1 .. Len(records)}

\* the punches of one person in stream order, and that person's shifts
PunchesOf(person) ==
    LET rs == PersonRecords(records, person)
    IN  [i \in 1 .. Len(rs) |-> rs[i].DataHora]
ShiftsOf(person) == SelectSeq(shifts, LAMBDA sh : sh.person = person)
DailyOf(person) == SelectSeq(daily, LAMBDA d : d.nome = person)

RECURSIVE ShiftOfPunch(_, _)
\* the number of the shift that holds the i-th punch of the person whose
\* shifts, in order, are list
ShiftOfPunch(list, i) ==
    IF i <= Len(list[1].punches) THEN 1
    ELSE 1 + ShiftOfPunch(Tail(list), i - Len(list[1].punches))

ThresholdMs == config.shiftThresholdHours * MsPerHour

\* the i-th and (i+1)-th punch of the person lie in the same shift
Together(person, i) ==
    ShiftOfPunch(ShiftsOf(person), i) = ShiftOfPunch(ShiftsOf(person), i + 1)

\* distance of the (i+1)-th punch from the first punch of the shift of the i-th
SpanAt(person, i) ==
    PunchesOf(person)[i + 1]
        - ShiftsOf(person)[ShiftOfPunch(ShiftsOf(person), i)].startTime

GapAt(person, i) == PunchesOf(person)[i + 1] - PunchesOf(person)[i]

HasLunch(sh) == sh.lunchType \in {"NORMAL", "ARTIFICIAL"}

(***************************************************************************)
(* C1 as stated: in processRecords two consecutive punches of one person   *)
(* whose gap is exactly the threshold are in the same shift, and two whose *)
(* gap is greater are in different shifts.                                 *)
(***************************************************************************)
C1_AsStated ==
    Processed =>
        \A p \in Persons : \A i \in 1 .. Len(PunchesOf(p)) - 1 :
            /\ GapAt(p, i) = ThresholdMs => Together(p, i)
            /\ GapAt(p, i) > ThresholdMs => ~Together(p, i)

(***************************************************************************)
(* C1 amended: two consecutive punches whose gap is exactly the threshold  *)
(* are in the same shift provided the later punch is at most 18 hours      *)
(* after the first punch of that shift; two whose gap is greater than the  *)
(* threshold are in different shifts.                                      *)
(***************************************************************************)
C1_ThresholdBoundary ==
    Processed =>
        \A p \in Persons : \A i \in 1 .. Len(PunchesOf(p)) - 1 :
            /\ (GapAt(p, i) = ThresholdMs /\ SpanAt(p, i) <= FullCapHours * MsPerHour)
                   => Together(p, i)
            /\ GapAt(p, i) > ThresholdMs => ~Together(p, i)

C1_Witness ==
    /\ Processed
    /\ \E p \in Persons : \E i, j \in 1 .. Len(PunchesOf(p)) - 1 :
        /\ GapAt(p, i) = ThresholdMs /\ Together(p, i)
        /\ GapAt(p, j) = ThresholdMs + 1 /\ ~Together(p, j)

(***************************************************************************)
(* C2: every shift spans at most the hard cap (18 h in processRecords,     *)
(* 16 h in calculateDailyWorkers), so punches of one person that span more *)
(* than the cap make at least two shifts.                                  *)
(***************************************************************************)
C2_HardCap ==
    /\ Processed =>
        /\ \A i \in 1 .. Len(shifts) :
              shifts[i].endTime - shifts[i].startTime <= FullCapHours * MsPerHour
        /\ \A p \in Persons :
              PunchesOf(p)[Len(PunchesOf(p))] - PunchesOf(p)[1] > FullCapHours * MsPerHour
                  => Len(ShiftsOf(p)) >= 2
    /\ DailyDone =>
        /\ \A i \in 1 .. Len(daily) :
              daily[i].saida - daily[i].chegada <= MAX_SHIFT_DURATION_HOURS * MsPerHour
        /\ \A p \in Persons :
              PunchesOf(p)[Len(PunchesOf(p))] - PunchesOf(p)[1]
                    > MAX_SHIFT_DURATION_HOURS * MsPerHour
                  => Len(DailyOf(p)) >= 2

\* a person whose gaps are all within the threshold, split by the cap alone
C2_Witness ==
    /\ Processed
    /\ \E p \in Persons :
        /\ \A i \in 1 .. Len(PunchesOf(p)) - 1 : GapAt(p, i) <= ThresholdMs
        /\ PunchesOf(p)[Len(PunchesOf(p))] - PunchesOf(p)[1] > FullCapHours * MsPerHour
        /\ Len(ShiftsOf(p)) >= 2

(***************************************************************************)
(* C3: for every shift with a resolved break, worked milliseconds plus the *)
(* length of the break equal end - start, and the reported worked time is  *)
(* that difference formatted.                                              *)
(***************************************************************************)
C3_WorkedConservation ==
    Processed =>
        \A i \in 1 .. Len(shifts) :
            HasLunch(shifts[i]) =>
                /\ shifts[i].workedMs + (shifts[i].lunchEnd - shifts[i].lunchStart)
                       = shifts[i].endTime - shifts[i].startTime
                /\ shifts[i].workedTimeStr
                       = formatDuration((shifts[i].endTime - shifts[i].startTime)
                                          - (shifts[i].lunchEnd - shifts[i].lunchStart))

C3_Witness ==
    /\ Processed
    /\ \E i, j \in 1 .. Len(shifts) :
        /\ shifts[i].lunchType = "ARTIFICIAL"
        /\ shifts[j].lunchType = "NORMAL"
        /\ shifts[j].lunchEnd > shifts[j].lunchStart

\* start <= end, and a resolved break lies inside the shift and is not empty
ShiftWellFormed(sh) ==
    /\ sh.startTime <= sh.endTime
    /\ sh.lunchType # "NONE" =>
        /\ sh.startTime <= sh.lunchStart
        /\ sh.lunchStart < sh.lunchEnd
        /\ sh.lunchEnd <= sh.endTime

(***************************************************************************)
(* C4 as stated: for any ProcessingConfig every shift has start <= end     *)
(* and, when lunchType is not NONE, start <= lunchStart < lunchEnd <= end. *)
(***************************************************************************)
C4_AsStated ==
    Processed => \A i \in 1 .. Len(shifts) : ShiftWellFormed(shifts[i])

(***************************************************************************)
(* C4 amended: for any ProcessingConfig whose lunchMinDuration is greater  *)
(* than 0 every shift has start <= end and, when lunchType is not NONE,    *)
(* start <= lunchStart < lunchEnd <= end.                                  *)
(***************************************************************************)
C4_ShiftInvariant ==
    (Processed /\ config.lunchMinDuration > 0) =>
        \A i \in 1 .. Len(shifts) : ShiftWellFormed(shifts[i])

C4_Witness ==
    /\ Processed
    /\ config.lunchMinDuration > 0
    /\ \E i, j \in 1 .. Len(shifts) :
        /\ shifts[i].lunchType = "NORMAL"
        /\ shifts[j].lunchType = "ARTIFICIAL"

(***************************************************************************)
(* C5: every ARTIFICIAL break lies within [start + 15 min, end - 15 min]   *)
(* intersected with the canonical window of the shift's start, and lasts a *)
(* whole number of minutes between 60 and 65, whatever the two draws.      *)
(***************************************************************************)
C5_ArtificialContained ==
    Processed =>
        \A i \in 1 .. Len(shifts) :
            shifts[i].lunchType = "ARTIFICIAL" =>
                LET sh == shifts[i]
                    w == getLunchWindow(sh.startTime)
                    len == sh.lunchEnd - sh.lunchStart
                IN  /\ sh.lunchStart >= sh.startTime + 15 * MsPerMin
                    /\ sh.lunchStart >= w.start
                    /\ sh.lunchEnd <= sh.endTime - 15 * MsPerMin
                    /\ sh.lunchEnd <= w.end
                    /\ len % MsPerMin = 0
                    /\ len \div MsPerMin \in 60 .. 65

\* an artificial break of 65 minutes placed off the start of the usable interval
C5_Witness ==
    /\ Processed
    /\ \E i \in 1 .. Len(shifts) :
        /\ shifts[i].lunchType = "ARTIFICIAL"
        /\ shifts[i].lunchEnd - shifts[i].lunchStart = 65 * MsPerMin
        /\ shifts[i].lunchStart > Max(shifts[i].startTime + 15 * MsPerMin,
                                      getLunchWindow(shifts[i].startTime).start)

(***************************************************************************)
(* C6: getLunchWindow maps a start of hour 5..12 to 10:30-14:30 of the     *)
(* start's day, of hour 13..17 to 17:30-20:00 of the same day, of hour     *)
(* 18..23 to 00:30-03:00 of the following day, and of hour 0..4 to         *)
(* 00:30-03:00 of the same day.                                            *)
(***************************************************************************)
C6_WindowByHour ==
    pc = "window_out" =>
        LET day == (shiftStart \div DayMs) * DayMs
            hour == (shiftStart - day) \div MsPerHour
        IN  /\ hour \in 5 .. 12 =>
                window = [start |-> day + 10 * MsPerHour + 30 * MsPerMin,
                          end |-> day + 14 * MsPerHour + 30 * MsPerMin]
            /\ hour \in 13 .. 17 =>
                window = [start |-> day + 17 * MsPerHour + 30 * MsPerMin,
                          end |-> day + 20 * MsPerHour]
            /\ hour \in 18 .. 23 =>
                window = [start |-> day + DayMs + 30 * MsPerMin,
                          end |-> day + DayMs + 3 * MsPerHour]
            /\ hour \in 0 .. 4 =>
                window = [start |-> day + 30 * MsPerMin, end |-> day + 3 * MsPerHour]

\* a 23:00 start resolved to the next day's night window
C6_Witness ==
    /\ pc = "window_out"
    /\ shiftStart = DayMs + 23 * MsPerHour
    /\ window.start = 2 * DayMs + 30 * MsPerMin

\* the trimmed, lower-cased text of the first name column of a row that has
\* one with a non-empty value: the row's resolvable name, as a set
ResolvedNames(row) ==
    LET named == {j \in 1 .. Len(row.cells) :
                    HeaderKeywords(row.cells[j].key) \cap NameKeywords # {}}
    IN  {ToLowerCase(Trim(StringOf(row.cells[j].val))) :
            j \in {n \in named : (\A m \in named : n <= m) /\ Truthy(row.cells[n].val)}}
        \ {<< >>}

NameSetOfB == UNION {ResolvedNames(data2[i]) : i \in 1 .. Len(data2)}

(***************************************************************************)
(* C7: processInformationIntersection returns only row objects of table A, *)
(* and every returned row has a resolvable name whose trimmed, lower-cased *)
(* form is in the name set built from table B.                             *)
(***************************************************************************)
C7_IntersectionSubset ==
    pc = "isect_out" =>
        \A i \in 1 .. Len(isect.filteredData) :
            /\ \E j \in 1 .. Len(data1) : data1[j] = isect.filteredData[i]
            /\ ResolvedNames(isect.filteredData[i]) # {}
            /\ ResolvedNames(isect.filteredData[i]) \subseteq NameSetOfB

\* a row of A kept through a name that differs in case and padding from
\* B's, next to a named row of A that is dropped
C7_Witness ==
    /\ pc = "isect_out"
    /\ \E i \in 1 .. Len(isect.filteredData) : \E j \in 1 .. Len(data2) :
        /\ ResolvedNames(isect.filteredData[i]) = ResolvedNames(data2[j])
        /\ isect.filteredData[i].cells # data2[j].cells
    /\ \E j \in 1 .. Len(data1) :
        /\ ResolvedNames(data1[j]) # {}
        /\ \A i \in 1 .. Len(isect.filteredData) : isect.filteredData[i] # data1[j]

Parsed == pc \in {"processed", "daily"}

(***************************************************************************)
(* C8: every punch emitted by parseRawData has a year of at least 2020 and *)
(* a time of day other than 00:00:00; no candidate that breaks either      *)
(* condition is emitted.                                                   *)
(***************************************************************************)
C8_PunchFilters ==
    Parsed =>
        \A i \in 1 .. Len(records) :
            /\ getFullYear(records[i].DataHora) >= 2020
            /\ (records[i].DataHora % DayMs) \div MsPerSec # 0

\* a row that yields punches although one of its date cells is a bare
\* reference date, in a table that also holds a date before 2020
C8_Witness ==
    /\ Parsed
    /\ \E i \in 1 .. Len(table) : \E j \in 1 .. Len(table[i]) :
        /\ table[i][j].val.type = "date"
        /\ table[i][j].val.t % DayMs = 0
        /\ \E n \in 1 .. Len(records) : records[n].OriginalRow = i
    /\ \E i \in 1 .. Len(table) : \E j \in 1 .. Len(table[i]) :
        /\ table[i][j].val.type = "date"
        /\ table[i][j].val.t < 0

(***************************************************************************)
(* C9: the punch stream returned by parseRawData is ordered by person and  *)
(* then by timestamp, and sorting it again leaves it as it is (punches     *)
(* equal in person and timestamp keep their relative order).               *)
(***************************************************************************)
C9_SortedAndStable ==
    Parsed =>
        /\ \A i \in 1 .. Len(records) - 1 :
            \/ StrLess(records[i].Pessoa, records[i + 1].Pessoa)
            \/ /\ records[i].Pessoa = records[i + 1].Pessoa
               /\ records[i].DataHora <= records[i + 1].DataHora
        /\ SortRecords(records) = records

\* the scan emitted the punches out of order, two of them distinct but equal
\* in person and timestamp
C9_Witness ==
    /\ Parsed
    /\ ScanRows(table, 1) # records
    /\ \E i \in 1 .. Len(records) - 1 :
        /\ records[i].Pessoa = records[i + 1].Pessoa
        /\ records[i].DataHora = records[i + 1].DataHora
        /\ records[i] # records[i + 1]
    /\ \E i \in 1 .. Len(records) - 1 : records[i].Pessoa # records[i + 1].Pessoa

(***************************************************************************)
(* C10: with the default config, one person with punches at 08:00, 12:05,  *)
(* 13:10 and 17:00 of one day yields exactly one shift, whose lunch is     *)
(* NORMAL from 12:05 to 13:10 and whose worked time is 07:55:00.           *)
(***************************************************************************)
C10_AnaScenario ==
    (Processed /\ table = AnaTable /\ config = DEFAULT_CONFIG) =>
        /\ Len(shifts) = 1
        /\ shifts[1].startTime = At(1, 8, 0)
        /\ shifts[1].endTime = At(1, 17, 0)
        /\ shifts[1].lunchType = "NORMAL"
        /\ shifts[1].lunchStart = At(1, 12, 5)
        /\ shifts[1].lunchEnd = At(1, 13, 10)
        /\ shifts[1].workedTimeStr = <<7, 55, 0>>

C10_Witness ==
    /\ Processed
    /\ table = AnaTable
    /\ config = DEFAULT_CONFIG
    /\ Len(shifts) = 1

(***************************************************************************)
(* C11: with the default config, one person with punches only at 08:00 and *)
(* 16:00 of one day yields exactly one shift, from 08:00 to 16:00, whose   *)
(* lunch is ARTIFICIAL for every draw, lies inside 10:30-14:30 and lasts   *)
(* between 60 and 65 minutes.                                              *)
(***************************************************************************)
C11_BrunoScenario ==
    (Processed /\ table = BrunoTable /\ config = DEFAULT_CONFIG) =>
        /\ Len(shifts) = 1
        /\ shifts[1].person = Bruno
        /\ shifts[1].startTime = At(1, 8, 0)
        /\ shifts[1].endTime = At(1, 16, 0)
        /\ shifts[1].lunchType = "ARTIFICIAL"
        /\ shifts[1].lunchStart >= At(1, 10, 30)
        /\ shifts[1].lunchEnd <= At(1, 14, 30)
        /\ shifts[1].lunchEnd - shifts[1].lunchStart >= 60 * MsPerMin
        /\ shifts[1].lunchEnd - shifts[1].lunchStart <= 65 * MsPerMin

\* the draw of the longest break, placed off the start of the window
C11_Witness ==
    /\ Processed
    /\ table = BrunoTable
    /\ config = DEFAULT_CONFIG
    /\ shifts[1].lunchType = "ARTIFICIAL"
    /\ shifts[1].lunchEnd - shifts[1].lunchStart = 65 * MsPerMin
    /\ shifts[1].lunchStart > At(1, 10, 30)

(***************************************************************************)
(* C12: in daily-worker mode (threshold 12 h, cap 16 h) one person with    *)
(* punches at 22:00 of day 1 and at 02:00 and 06:30 of day 2 yields a      *)
(* single record from 22:00 of day 1 to 06:30 of day 2, and the window     *)
(* resolved for it is 00:30-03:00 of day 2.                                *)
(***************************************************************************)
C12_NightScenario ==
    (DailyDone /\ table = NightTable) =>
        /\ Len(daily) = 1
        /\ daily[1].chegada = At(1, 22, 0)
        /\ daily[1].saida = At(2, 6, 30)
        /\ daily[1].windowStart = At(2, 0, 30)
        /\ daily[1].windowEnd = At(2, 3, 0)

C12_Witness ==
    /\ DailyDone
    /\ table = NightTable
    /\ Len(daily) = 1
    /\ daily[1].punches = <<At(1, 22, 0), At(2, 2, 0), At(2, 6, 30)>>

(***************************************************************************)
(* C13 as stated: for every shift of daily-worker mode, finalizeShift      *)
(* subtracts a break exactly when calculateSingleShift with the bounds     *)
(* 45-75 minutes resolves a NORMAL lunch for the same punches, and the     *)
(* break subtracted is that same gap.                                      *)
(***************************************************************************)
C13_AsStated ==
    DailyDone =>
        \A i \in 1 .. Len(daily) :
            LET full == calculateSingleShift(daily[i].nome, daily[i].punches,
                                             DEFAULT_CONFIG, 0, 0)
            IN  /\ (daily[i].breakStart # Null) <=> (full.lunchType = "NORMAL")
                /\ daily[i].breakStart # Null =>
                       /\ daily[i].breakStart = full.lunchStart
                       /\ daily[i].breakEnd = full.lunchEnd
                       /\ daily[i].durationMs = full.workedMs

(***************************************************************************)
(* C14 as stated: when one of the files given to mergeFiles or to          *)
(* processInformationIntersection decodes to an empty table, the call      *)
(* fails and produces no result.                                           *)
(***************************************************************************)
C14_AsStated ==
    (data1 = << >> \/ data2 = << >>) =>
        /\ pc \notin {"isect_out", "merge_out"}
        /\ isect = NoResult
        /\ merged = NoMerge

(***************************************************************************)
(* C15: processRecords returns the shifts ordered by person and then by    *)
(* startTime, and calculateDailyWorkers returns the records ordered by     *)
(* nome and then by chegada, whatever the order of the rows of the table.  *)
(***************************************************************************)
C15_OutputsOrdered ==
    /\ Processed =>
        \A i \in 1 .. Len(shifts) - 1 :
            \/ StrLess(shifts[i].person, shifts[i + 1].person)
            \/ /\ shifts[i].person = shifts[i + 1].person
               /\ shifts[i].startTime <= shifts[i + 1].startTime
    /\ DailyDone =>
        \A i \in 1 .. Len(daily) - 1 :
            \/ StrLess(daily[i].nome, daily[i + 1].nome)
            \/ /\ daily[i].nome = daily[i + 1].nome
               /\ daily[i].chegada <= daily[i + 1].chegada

\* a table whose first row is of the person that comes last in the result
C15_Witness ==
    /\ Processed
    /\ Len(shifts) >= 2
    /\ RowRecords(table[1], 1) # << >>
    /\ RowRecords(table[1], 1)[1].Pessoa = shifts[Len(shifts)].person
    /\ shifts[1].person # shifts[Len(shifts)].person

\* some header of the row contains a person keyword
HasPersonHeader(row) ==
    \E j \in 1 .. Len(row) : HeaderKeywords(row[j].key) \cap PersonKeywords # {}

\* some cell of the row holds a timestamp that passes the two filters
HasDateCell(row) ==
    \E j \in 1 .. Len(row) :
        /\ \/ row[j].val.type = "date"
           \/ row[j].val.type = "string" /\ row[j].val.date.valid
        /\ LET t == IF row[j].val.type = "date" THEN row[j].val.t ELSE row[j].val.date.t
           IN  t >= 0 /\ t % DayMs >= MsPerSec

(***************************************************************************)
(* C16: when a pipeline has run on a decoded table, a row with no header   *)
(* matching a person keyword has contributed no punch, and a table in      *)
(* which every row lacks a person column or an acceptable date cell has    *)
(* yielded an empty punch stream and an empty result list (the run ends    *)
(* with a result, not with an error).                                      *)
(***************************************************************************)
C16_NeverFails ==
    /\ Parsed =>
        /\ \A i \in 1 .. Len(table) :
              ~HasPersonHeader(table[i]) =>
                  \A n \in 1 .. Len(records) : records[n].OriginalRow # i
        /\ (\A i \in 1 .. Len(table) :
                ~HasPersonHeader(table[i]) \/ ~HasDateCell(table[i]))
              => records = << >> /\ shifts = << >> /\ daily = << >>

\* an empty result from a table with a dated row that names no person and
\* a named row that holds no acceptable date
C16_Witness ==
    /\ Parsed
    /\ records = << >>
    /\ \E i, j \in 1 .. Len(table) :
        /\ ~HasPersonHeader(table[i]) /\ HasDateCell(table[i])
        /\ HasPersonHeader(table[j]) /\ ~HasDateCell(table[j])

\* the shift has a single punch or spans less than one hour
IsShort(sh) == Len(sh.punches) < 2 \/ sh.endTime - sh.startTime < MsPerHour

(***************************************************************************)
(* C17: a shift with fewer than 2 punches or with end - start below one    *)
(* hour has lunchType NONE, null lunchStart and lunchEnd, worked time      *)
(* end - start and a non-empty warnings list; every other shift has an     *)
(* empty warnings list.                                                    *)
(***************************************************************************)
C17_ShortShift ==
    Processed =>
        \A i \in 1 .. Len(shifts) :
            LET sh == shifts[i]
                span == sh.endTime - sh.startTime
            IN  /\ IsShort(sh) =>
                    /\ sh.lunchType = "NONE"
                    /\ sh.lunchStart = Null
                    /\ sh.lunchEnd = Null
                    /\ sh.workedMs = span
                    /\ sh.workedHours = span
                    /\ sh.workedTimeStr = formatDuration(span)
                    /\ sh.warnings # << >>
                /\ ~IsShort(sh) => sh.warnings = << >>

\* a shift of two punches half an hour apart next to a longer shift
C17_Witness ==
    /\ Processed
    /\ \E j, n \in 1 .. Len(shifts) :
        /\ Len(shifts[j].punches) = 2
        /\ shifts[j].endTime - shifts[j].startTime = 30 * MsPerMin
        /\ ~IsShort(shifts[n])

\* the positions g of the consecutive-punch gaps of a shift whose duration
\* lies in [lunchMinDuration, lunchMaxDuration]
CandidatesOf(sh) ==
    {g \in 1 .. Len(sh.punches) - 1 :
        /\ sh.punches[g + 1] - sh.punches[g] >= config.lunchMinDuration * MsPerMin
        /\ sh.punches[g + 1] - sh.punches[g] <= config.lunchMaxDuration * MsPerMin}

\* gap g of the shift lies inside the canonical window of the shift
InsideWindow(sh, g) ==
    /\ sh.punches[g] >= getLunchWindow(sh.startTime).start
    /\ sh.punches[g + 1] <= getLunchWindow(sh.startTime).end

\* twice the distance of the midpoint of gap g from the window's midpoint
MidpointOff(sh, g) ==
    Abs((sh.punches[g] + sh.punches[g + 1])
          - (getLunchWindow(sh.startTime).start + getLunchWindow(sh.startTime).end))

\* the lunch of the shift is gap g
LunchIs(sh, g) == sh.lunchStart = sh.punches[g] /\ sh.lunchEnd = sh.punches[g + 1]

\* the selection rule of the NORMAL lunch among the candidates
NormalSelected(sh) ==
    CandidatesOf(sh) # {} =>
        /\ sh.lunchType = "NORMAL"
        /\ \E g \in CandidatesOf(sh) :
            /\ LunchIs(sh, g)
            /\ (\E h \in CandidatesOf(sh) : InsideWindow(sh, h)) => InsideWindow(sh, g)
            /\ (\A h \in CandidatesOf(sh) : ~InsideWindow(sh, h)) =>
                   \A h \in CandidatesOf(sh) : MidpointOff(sh, g) <= MidpointOff(sh, h)

(***************************************************************************)
(* C18 as stated: whenever a shift has a consecutive-punch gap with a      *)
(* duration in [lunchMinDuration, lunchMaxDuration] its lunch is NORMAL    *)
(* and is one of those gaps: the only candidate when there is one; with    *)
(* several, one inside the canonical window if any is, otherwise one whose *)
(* midpoint is closest to the window's midpoint.                           *)
(***************************************************************************)
C18_AsStated ==
    Processed => \A i \in 1 .. Len(shifts) : NormalSelected(shifts[i])

(***************************************************************************)
(* C18 amended: the same for every shift of at least 2 punches that spans  *)
(* at least one hour.                                                      *)
(***************************************************************************)
C18_NormalSelection ==
    Processed =>
        \A i \in 1 .. Len(shifts) : ~IsShort(shifts[i]) => NormalSelected(shifts[i])

\* several candidates, none inside the window, and the one chosen is not
\* the first of them
C18_Witness ==
    /\ Processed
    /\ \E i \in 1 .. Len(shifts) :
        /\ ~IsShort(shifts[i])
        /\ Cardinality(CandidatesOf(shifts[i])) >= 2
        /\ \A h \in CandidatesOf(shifts[i]) : ~InsideWindow(shifts[i], h)
        /\ \E g, h \in CandidatesOf(shifts[i]) :
            /\ h < g
            /\ LunchIs(shifts[i], g)
            /\ MidpointOff(shifts[i], g) < MidpointOff(shifts[i], h)

\* the length of the usable interval of a shift: the shift trimmed by 15
\* minutes at each end, cut by its canonical window (negative when empty)
UsableMs(sh) ==
    Min(sh.endTime - 15 * MsPerMin, getLunchWindow(sh.startTime).end)
        - Max(sh.startTime + 15 * MsPerMin, getLunchWindow(sh.startTime).start)

(***************************************************************************)
(* C19: a break is synthesized only for a shift without candidate gaps; a  *)
(* shift of at least 2 punches and 1 hour without candidate gaps is        *)
(* ARTIFICIAL exactly when its usable interval is at least as long as the  *)
(* target drawn for it (60 to 65 minutes), and is otherwise NONE with null *)
(* lunch fields, worked time end - start and no warning.                   *)
(***************************************************************************)
C19_SynthesisRule ==
    Processed =>
        \A i \in 1 .. Len(shifts) :
            LET sh == shifts[i]
            IN  /\ sh.lunchType = "ARTIFICIAL" => CandidatesOf(sh) = {}
                /\ (~IsShort(sh) /\ CandidatesOf(sh) = {}) =>
                    /\ sh.artificialMin \in 60 .. 65
                    /\ sh.lunchType = "ARTIFICIAL" <=>
                           UsableMs(sh) >= sh.artificialMin * MsPerMin
                    /\ sh.lunchType = "ARTIFICIAL" =>
                           sh.lunchEnd - sh.lunchStart = sh.artificialMin * MsPerMin
                    /\ sh.lunchType # "ARTIFICIAL" =>
                           /\ sh.lunchType = "NONE"
                           /\ sh.lunchStart = Null
                           /\ sh.lunchEnd = Null
                           /\ sh.workedMs = sh.endTime - sh.startTime
                           /\ sh.workedTimeStr = formatDuration(sh.endTime - sh.startTime)
                           /\ sh.warnings = << >>

\* no break placed for a drawn target of 63 minutes in a usable interval of
\* 62 minutes, which has room for the targets of 60 to 62 minutes
C19_Witness ==
    /\ Processed
    /\ \E i \in 1 .. Len(shifts) :
        /\ ~IsShort(shifts[i])
        /\ CandidatesOf(shifts[i]) = {}
        /\ UsableMs(shifts[i]) = 62 * MsPerMin
        /\ shifts[i].artificialMin = 63
        /\ shifts[i].lunchType = "NONE"

RECURSIVE PunchCount(_)
\* the number of punches held by the shifts (or daily records) of list
PunchCount(list) ==
    IF list = << >> THEN 0 ELSE Len(list[1].punches) + PunchCount(Tail(list))

\* daily-worker mode: the i-th and (i+1)-th punch of the person lie in the
\* same shift, and the distance of the (i+1)-th punch from the first punch
\* of the shift of the i-th
TogetherDaily(person, i) ==
    ShiftOfPunch(DailyOf(person), i) = ShiftOfPunch(DailyOf(person), i + 1)
SpanAtDaily(person, i) ==
    PunchesOf(person)[i + 1]
        - DailyOf(person)[ShiftOfPunch(DailyOf(person), i)].chegada

(***************************************************************************)
(* C20: in both segmenters the shifts of a person are maximal greedy runs: *)
(* a punch is appended to the current shift exactly when its gap to the    *)
(* previous punch is within the threshold and its distance from the        *)
(* shift's first punch within the hard cap (so a new shift begins only     *)
(* when one of the two is exceeded), and the trailing shift is finalized:  *)
(* the shifts hold all the punches, the last one ending at the last punch. *)
(***************************************************************************)
C20_GreedyRuns ==
    /\ Processed =>
        \A p \in Persons :
            /\ PunchCount(ShiftsOf(p)) = Len(PunchesOf(p))
            /\ ShiftsOf(p)[Len(ShiftsOf(p))].endTime = PunchesOf(p)[Len(PunchesOf(p))]
            /\ \A i \in 1 .. Len(PunchesOf(p)) - 1 :
                  Together(p, i) <=>
                      /\ GapAt(p, i) <= ThresholdMs
                      /\ SpanAt(p, i) <= FullCapHours * MsPerHour
    /\ DailyDone =>
        \A p \in Persons :
            /\ PunchCount(DailyOf(p)) = Len(PunchesOf(p))
            /\ DailyOf(p)[Len(DailyOf(p))].saida = PunchesOf(p)[Len(PunchesOf(p))]
            /\ \A i \in 1 .. Len(PunchesOf(p)) - 1 :
                  TogetherDaily(p, i) <=>
                      /\ GapAt(p, i) <= THRESHOLD_HOURS * MsPerHour
                      /\ SpanAtDaily(p, i) <= MAX_SHIFT_DURATION_HOURS * MsPerHour

\* daily-worker mode: a punch 12 hours after the previous one appended, and
\* a later punch split off by the hard cap alone
C20_Witness ==
    /\ DailyDone
    /\ \E p \in Persons : \E i, j \in 1 .. Len(PunchesOf(p)) - 1 :
        /\ GapAt(p, i) = THRESHOLD_HOURS * MsPerHour
        /\ TogetherDaily(p, i)
        /\ GapAt(p, j) <= THRESHOLD_HOURS * MsPerHour
        /\ ~TogetherDaily(p, j)

\* the lengths of the consecutive-punch gaps of a daily record that last
\* between 45 and 75 minutes
MealGapsOf(d) ==
    {d.punches[g + 1] - d.punches[g] : g \in 1 .. Len(d.punches) - 1}
        \cap (45 * MsPerMin .. 75 * MsPerMin)

(***************************************************************************)
(* C21: in daily-worker mode arrival and departure are the first and the   *)
(* last punch of the shift; when no consecutive-punch gap lasts between 45 *)
(* and 75 minutes the net duration (horaTotal) is departure - arrival; in  *)
(* every case the net duration is that span or the span minus one such     *)
(* gap, and is never negative.                                             *)
(***************************************************************************)
C21_DailyNet ==
    DailyDone =>
        \A i \in 1 .. Len(daily) :
            LET d == daily[i]
                span == d.saida - d.chegada
            IN  /\ d.chegada = d.punches[1]
                /\ d.saida = d.punches[Len(d.punches)]
                /\ d.horaTotal = formatDuration(d.durationMs)
                /\ MealGapsOf(d) = {} => d.durationMs = span
                /\ \/ d.durationMs = span
                   \/ \E len \in MealGapsOf(d) : d.durationMs = span - len
                /\ d.durationMs >= 0

\* a shift of four hours with room for a synthetic break and no meal gap,
\* left whole, next to a shift whose meal gap is subtracted
C21_Witness ==
    /\ DailyDone
    /\ \E i, j \in 1 .. Len(daily) :
        /\ MealGapsOf(daily[i]) = {}
        /\ daily[i].saida - daily[i].chegada >= 4 * MsPerHour
        /\ daily[i].durationMs = daily[i].saida - daily[i].chegada
        /\ daily[j].durationMs < daily[j].saida - daily[j].chegada

\* the positions of the rows of table A whose resolved name is one of the
\* resolved names of table B
MatchingRows ==
    {j \in 1 .. Len(data1) :
        ResolvedNames(data1[j]) # {} /\ ResolvedNames(data1[j]) \subseteq NameSetOfB}

(***************************************************************************)
(* C22: processInformationIntersection returns exactly the rows of table A *)
(* whose resolved name equals, trimmed and lower-cased, a resolved name of *)
(* table B, in the order they have in table A, with initialCount the       *)
(* number of rows of A and finalCount the number of returned rows.         *)
(***************************************************************************)
C22_IntersectionExact ==
    pc = "isect_out" =>
        /\ Len(isect.filteredData) = Cardinality(MatchingRows)
        /\ \A j \in MatchingRows :
              isect.filteredData[Cardinality({m \in MatchingRows : m <= j})] = data1[j]
        /\ isect.initialCount = Len(data1)
        /\ isect.finalCount = Len(isect.filteredData)

\* two rows retained, of different content, one of them through a name
\* written in another case than in table B
C22_Witness ==
    /\ pc = "isect_out"
    /\ Len(isect.filteredData) = 2
    /\ isect.filteredData[1].cells # isect.filteredData[2].cells
    /\ \E i \in 1 .. 2 : \A j \in 1 .. Len(data2) :
          \A c \in 1 .. Len(isect.filteredData[i].cells) :
              \A e \in 1 .. Len(data2[j].cells) :
                  isect.filteredData[i].cells[c].val # data2[j].cells[e].val

RECURSIVE RowsBefore(_)
\* the number of rows of the files 1 .. f - 1
RowsBefore(f) == IF f <= 1 THEN 0 ELSE RowsBefore(f - 1) + Len(files[f - 1].rows)

(***************************************************************************)
(* C23: mergeFiles is all-or-nothing.  A merged file exists only after a   *)
(* successful return; when the read of any file fails the call ends in     *)
(* failure and never returns a file; on success the count is the sum of    *)
(* the row counts of the files and the merged rows are the rows of the     *)
(* files in the order of the files, each file's rows in their own order,   *)
(* whatever order the reads completed in.                                  *)
(***************************************************************************)
C23_MergeAllOrNothing ==
    /\ pc # "merge_out" => merged = NoMerge
    /\ (\E i \in 1 .. Len(files) : ~files[i].ok) => pc \in {"merge_reading", "merge_failed"}
    /\ pc = "merge_out" =>
        /\ merged.count = RowsBefore(Len(files) + 1)
        /\ Len(merged.rows) = merged.count
        /\ \A f \in 1 .. Len(files) : \A r \in 1 .. Len(files[f].rows) :
              merged.rows[RowsBefore(f) + r] = files[f].rows[r]

\* a merge that succeeded although the second read completed first
C23_Witness ==
    /\ pc = "merge_out"
    /\ Len(files) >= 2
    /\ reads.order[1] = 2
    /\ Len(files[1].rows) >= 1
    /\ Len(files[2].rows) >= 1

\* the position of a shift in the list data of the component
PositionIn(list, sh) == CHOOSE i \in 1 .. Len(list) : list[i] = sh

IsShortRow(sh) == sh.workedHours <= MsPerHour

(***************************************************************************)
(* C24: in every sheet written by exportShiftsByCategory and               *)
(* exportSingleSheet the shifts with workedHours > 1 come before all the   *)
(* shifts with workedHours <= 1, and inside each of the two groups the     *)
(* shifts are in the order they had in the list given to the export.       *)
(***************************************************************************)
C24_ShortToBottom ==
    \A k \in 1 .. Len(sheets) :
        LET rows == sheets[k].rows
        IN  \A i, j \in 1 .. Len(rows) :
                i < j =>
                    /\ ~(IsShortRow(rows[i]) /\ ~IsShortRow(rows[j]))
                    /\ IsShortRow(rows[i]) = IsShortRow(rows[j])
                         => PositionIn(shifts, rows[i]) < PositionIn(shifts, rows[j])

\* a sheet in which a shift of workedHours 1.00 was moved below a longer
\* one that followed it in the list, next to a sheet of one category
C24_Witness ==
    /\ pc = "identifier_ready"
    /\ \E k \in 1 .. Len(sheets) :
          LET rows == sheets[k].rows
          IN  \E i, j \in 1 .. Len(rows) :
                /\ i < j
                /\ rows[j].workedHours = MsPerHour
                /\ ~IsShortRow(rows[i])
                /\ PositionIn(shifts, rows[j]) < PositionIn(shifts, rows[i])

\* the sheet of exportShiftsByCategory that has the shift among its rows
SheetsHolding(sh) ==
    {k \in 1 .. Len(sheets) : \E i \in 1 .. Len(sheets[k].rows) : sheets[k].rows[i] = sh}

\* the lists of getCategorizedData that hold the shift
ListsHolding(sh) ==
    {c \in Categories :
        \E i \in 1 .. Len(getCategorizedData(shifts)[c]) : getCategorizedData(shifts)[c][i] = sh}

\* the category named by the start hour
CategoryOfHour(h) ==
    IF h \in 5 .. 12 THEN "morning" ELSE IF h \in 13 .. 17 THEN "afternoon" ELSE "night"

\* the category of a meal window: 10:30 morning, 17:30 afternoon, 00:30 night
CategoryOfWindow(w) ==
    IF getHours(w.start) = 10 THEN "morning"
    ELSE IF getHours(w.start) = 17 THEN "afternoon"
    ELSE "night"

(***************************************************************************)
(* C28: the morning / afternoon / night classification is one partition:   *)
(* exportShiftsByCategory writes every shift to exactly one of its three   *)
(* sheets, getCategorizedData puts it in exactly one of its three lists,   *)
(* the two agree, and the category is the one of the meal window           *)
(* getLunchWindow selects for the start hour: 5..12 morning, 13..17        *)
(* afternoon, otherwise night.                                             *)
(***************************************************************************)
C28_OnePartition ==
    /\ pc = "identifier_ready" =>
          \A i \in 1 .. Len(shifts) :
              /\ ListsHolding(shifts[i]) = {CategoryOfHour(getHours(shifts[i].startTime))}
              /\ CategoryOfWindow(getLunchWindow(shifts[i].startTime))
                   = CategoryOfHour(getHours(shifts[i].startTime))
    /\ Len(sheets) = 3 =>
          \A i \in 1 .. Len(shifts) :
              \E k \in 1 .. 3 :
                  /\ SheetsHolding(shifts[i]) = {k}
                  /\ ListsHolding(shifts[i]) = {sheets[k].name}

\* a workbook of the three categories with a shift in each, one of them
\* starting at 18:00 and one at 12:59
C28_Witness ==
    /\ Len(sheets) = 3
    /\ \A k \in 1 .. 3 : Len(sheets[k].rows) >= 1
    /\ \E i \in 1 .. Len(shifts) : getHours(shifts[i].startTime) = 18
    /\ \E i \in 1 .. Len(shifts) : getHours(shifts[i].startTime) = 12

RECURSIVE ConcatPunches(_)
\* the punches of the shifts of list, one shift after the other
ConcatPunches(list) ==
    IF list = << >> THEN << >> ELSE list[1].punches \o ConcatPunches(Tail(list))

(***************************************************************************)
(* C26: segmentation conserves punches.  In both modes the punches of the  *)
(* shifts of a person, taken shift after shift, are exactly the punches    *)
(* the normalizer emitted for that person (none lost, none duplicated),    *)
(* every shift belongs to a person of the stream and holds at least one    *)
(* punch, the end of each shift of a person is strictly earlier than the   *)
(* start of that person's next shift, and no two shifts have the same id.  *)
(***************************************************************************)
C26_PunchConservation ==
    /\ Processed =>
        /\ \A i \in 1 .. Len(shifts) :
              /\ shifts[i].person \in Persons
              /\ Len(shifts[i].punches) >= 1
              /\ shifts[i].startTime = shifts[i].punches[1]
              /\ shifts[i].endTime = shifts[i].punches[Len(shifts[i].punches)]
        /\ \A p \in Persons :
              /\ ConcatPunches(ShiftsOf(p)) = PunchesOf(p)
              /\ \A k \in 1 .. Len(ShiftsOf(p)) - 1 :
                    ShiftsOf(p)[k].endTime < ShiftsOf(p)[k + 1].startTime
        /\ \A i, j \in 1 .. Len(shifts) : i # j => shifts[i].id # shifts[j].id
    /\ DailyDone =>
        /\ \A i \in 1 .. Len(daily) :
              /\ daily[i].nome \in Persons
              /\ Len(daily[i].punches) >= 1
              /\ daily[i].chegada = daily[i].punches[1]
              /\ daily[i].saida = daily[i].punches[Len(daily[i].punches)]
        /\ \A p \in Persons :
              /\ ConcatPunches(DailyOf(p)) = PunchesOf(p)
              /\ \A k \in 1 .. Len(DailyOf(p)) - 1 :
                    DailyOf(p)[k].saida < DailyOf(p)[k + 1].chegada
        /\ \A i, j \in 1 .. Len(daily) : i # j => daily[i].id # daily[j].id

\* a person with a repeated timestamp and a split: two shifts, the repeated
\* punch twice in one of them
C26_Witness ==
    /\ Processed
    /\ \E p \in Persons :
          /\ Len(ShiftsOf(p)) >= 2
          /\ \E i \in 1 .. Len(PunchesOf(p)) - 1 : GapAt(p, i) = 0

(***************************************************************************)
(* C30 as stated: in InformationAnalyzer, whenever a result is displayed,  *)
(* file1 and file2 are both selected and the result was computed from      *)
(* exactly the file1 and file2 now selected.                               *)
(***************************************************************************)
C30_AsStated ==
    (analyzer.mounted /\ analyzer.result.present) =>
        /\ analyzer.file1 # NoFile
        /\ analyzer.file2 # NoFile
        /\ analyzer.result.file1 = analyzer.file1
        /\ analyzer.result.file2 = analyzer.file2

(***************************************************************************)
(* C29 as stated: in App, under any interleaving of selections,            *)
(* navigation, transfers and completions, isProcessing is true whenever a  *)
(* processTimesheetFile call started by handleFileSelected is in flight,   *)
(* and once no call is in flight the displayed processedData is the result *)
(* of the file submitted last, the one named by fileName.                  *)
(***************************************************************************)
C29_AsStated ==
    /\ app.calls # << >> => app.isProcessing
    /\ (app.calls = << >> /\ app.processedData # NoFile) => app.processedData = app.fileName

\* the lists processRecords can return for the stream and the config of the
\* state, one for every sequence of pseudorandom draws
OtherRuns == processRecords(records, config)

\* the two runs hold the same shifts: persons, ids, starts, ends, punches
SameShifts(run1, run2) ==
    /\ Len(run1) = Len(run2)
    /\ \A i \in 1 .. Len(run1) :
          /\ run1[i].id = run2[i].id
          /\ run1[i].person = run2[i].person
          /\ run1[i].startTime = run2[i].startTime
          /\ run1[i].endTime = run2[i].endTime
          /\ run1[i].punches = run2[i].punches

\* the two results for one shift carry the same break and worked time
SameBreak(sh1, sh2) ==
    /\ sh1.lunchStart = sh2.lunchStart
    /\ sh1.lunchEnd = sh2.lunchEnd
    /\ sh1.workedMs = sh2.workedMs
    /\ sh1.workedHours = sh2.workedHours

(***************************************************************************)
(* C27 as stated: two runs of full-detail processing on the same table and *)
(* config agree on the shifts, their start and end and the lunchType of    *)
(* every shift, for every pair of pseudorandom draws; only lunchStart,     *)
(* lunchEnd and worked time of ARTIFICIAL shifts may differ.               *)
(***************************************************************************)
C27_AsStated ==
    Processed =>
        \A other \in OtherRuns :
            /\ SameShifts(shifts, other)
            /\ \A i \in 1 .. Len(shifts) :
                  /\ shifts[i].lunchType = other[i].lunchType
                  /\ shifts[i].lunchType # "ARTIFICIAL" => SameBreak(shifts[i], other[i])

(***************************************************************************)
(* C27: two runs of full-detail processing on the same table and config    *)
(* agree on the shifts, their start and end, and on every NORMAL lunch;    *)
(* the lunchType of a shift differs between two runs only when the shift   *)
(* has no candidate gap and a usable interval of at least 60 and less than *)
(* 65 minutes, and then it is ARTIFICIAL in one run and NONE in the other; *)
(* apart from that only lunchStart, lunchEnd and worked time of shifts     *)
(* that are ARTIFICIAL in both runs may differ.                            *)
(***************************************************************************)
C27_DrawIndependence ==
    Processed =>
        \A other \in OtherRuns :
            /\ SameShifts(shifts, other)
            /\ \A i \in 1 .. Len(shifts) :
                  /\ shifts[i].lunchType # other[i].lunchType =>
                        /\ {shifts[i].lunchType, other[i].lunchType} = {"ARTIFICIAL", "NONE"}
                        /\ CandidatesOf(shifts[i]) = {}
                        /\ UsableMs(shifts[i]) >= 60 * MsPerMin
                        /\ UsableMs(shifts[i]) < 65 * MsPerMin
                  /\ (shifts[i].lunchType = other[i].lunchType
                        /\ shifts[i].lunchType # "ARTIFICIAL") => SameBreak(shifts[i], other[i])

\* a shift with a usable interval of 62 minutes that has no break in this
\* run and a synthesized break in another run
C27_Witness ==
    /\ Processed
    /\ \E other \in OtherRuns : \E i \in 1 .. Len(shifts) :
          /\ shifts[i].lunchType = "NONE"
          /\ other[i].lunchType = "ARTIFICIAL"
          /\ UsableMs(shifts[i]) = 62 * MsPerMin

====
